---------------------------- MODULE Spec2Model ----------------------------
(***************************************************************************)
(* A model of the i_overlay Python binding (src/src/*.rs): the conversion  *)
(* of geometry across the Python boundary, the enum and option records,   *)
(* the entry points overlay / simplify_shape / FloatOverlayGraph, and the  *)
(* overlay engine they call.  The engine (crate i_overlay_core) is not     *)
(* part of the binding's sources; it is modelled on an integer grid from   *)
(* its contract in spec.md (sections 3, 4.4 and 4.5).                      *)
(***************************************************************************)
EXTENDS Integers, Sequences, FiniteSets, TLC

VARIABLES
    subject,      \* Python argument `subject` of overlay / FloatOverlayGraph
    clip,         \* Python argument `clip`
    fill_rule,    \* Python argument `fill_rule` (a PyFillRule discriminant)
    options,      \* Python argument `options` (NoneValue or a PyOverlayOptions)
    solver,       \* Python argument `solver` (NoneValue or a PySolver)
    call,         \* the binding call that returned last: [fn, rule, ret, ...]
    graph,        \* the PyFloatOverlayGraph object (NoneValue before `new`)
    builds,       \* how often the engine built a graph view for `graph`
    rust,         \* a Rust-side Shapes / Paths value handed to *_to_python
    py,           \* the Python object that conversion produced
    back,         \* the result of extracting `py` again
    candidates,   \* absolute areas of the contours the engine is about to emit
    polylines,    \* Python argument `polylines` / `paths`
    clip_rule,    \* Python argument `clip_rule` of clip_by
    style,        \* Python argument `style` of stroke / outline
    is_closed,    \* Python argument `is_closed` of stroke
    harness,      \* the diagnostic harness: its position, counts and reports
    pool,         \* the engine's workers and their output buffers
    callers,      \* concurrent extract_shapes calls on one graph
    extraction,   \* rule extraction in progress: edges, marks and contours
    refinement    \* the precision refinement loop of the arrangement builder

vars == <<subject, clip, fill_rule, options, solver, call, graph, builds,
          rust, py, back, candidates, polylines, clip_rule, style,
          is_closed, harness, pool, callers, extraction, refinement>>

sessionVars == <<subject, clip, fill_rule, options, solver, call>>
graphVars == <<graph, builds>>
typeVars == <<rust, py, back>>
argVars == <<polylines, clip_rule, style, is_closed>>
engineVars == <<harness, pool, callers, extraction, refinement>>
auxVars == <<argVars, engineVars>>

NoneValue == [t |-> "None"]

(***************************************************************************)
(* PyResult<T>: Ok(v) or Err(e).                                           *)
(***************************************************************************)
Ok(v) == [ok |-> TRUE, val |-> v]
Err(e) == [ok |-> FALSE, err |-> e]

(***************************************************************************)
(* Python objects.  A Python float carries an f64; the model's f64 values  *)
(* are the integers, which f64 holds exactly in the ranges used here.      *)
(***************************************************************************)
PyFloat(x) == [t |-> "float", v |-> x]
PyTuple(items) == [t |-> "tuple", items |-> items]
PyList(items) == [t |-> "list", items |-> items]

\* A mutation of CollectResults: what cannot be converted is left out.
CollectResults_skipping(rs) ==
    Ok([i \in 1..Cardinality({j \in 1..Len(rs) : rs[j].ok}) |->
           rs[CHOOSE j \in 1..Len(rs) :
                  /\ rs[j].ok
                  /\ Cardinality({h \in 1..j : rs[h].ok}) = i].val])

\* The first error among a sequence of results, or Ok of all the values:
\* a `for` loop whose body ends in `?`, and `collect::<PyResult<Vec<_>>>()`.
CollectResults(rs) ==
    IF \E i \in 1..Len(rs) : ~rs[i].ok
    THEN LET first == CHOOSE i \in 1..Len(rs) :
                          /\ ~rs[i].ok
                          /\ \A j \in 1..(i - 1) : rs[j].ok
         IN  rs[first]
    ELSE Ok([i \in 1..Len(rs) |-> rs[i].val])

\* obj.extract::<Vec<Bound<PyAny>>>(): any Python sequence but a str.
ExtractVec(obj) ==
    IF obj.t \in {"list", "tuple"} THEN Ok(obj.items) ELSE Err("TypeError")

\* py_point.extract::<(f64, f64)>(): a tuple of exactly two numbers.
ExtractPoint(obj) ==
    IF /\ obj.t = "tuple"
       /\ Len(obj.items) = 2
       /\ \A i \in 1..2 : obj.items[i].t = "float"
    THEN Ok(<<obj.items[1].v, obj.items[2].v>>)
    ELSE Err("TypeError")

extract_contour(obj) ==
    LET py_points == ExtractVec(obj)
    IN  IF ~py_points.ok THEN py_points
        ELSE CollectResults([i \in 1..Len(py_points.val) |->
                                ExtractPoint(py_points.val[i])])

ExtractShape(obj) ==
    LET py_contours == ExtractVec(obj)
    IN  IF ~py_contours.ok THEN py_contours
        ELSE CollectResults([i \in 1..Len(py_contours.val) |->
                                extract_contour(py_contours.val[i])])

extract_shapes(obj) ==
    LET py_shapes == ExtractVec(obj)
    IN  IF ~py_shapes.ok THEN py_shapes
        ELSE CollectResults([i \in 1..Len(py_shapes.val) |->
                                ExtractShape(py_shapes.val[i])])

extract_paths(obj) ==
    LET py_paths == ExtractVec(obj)
    IN  IF ~py_paths.ok THEN py_paths
        ELSE CollectResults([i \in 1..Len(py_paths.val) |->
                                extract_contour(py_paths.val[i])])

\* A mutation of contour_to_python: the coordinates swapped.
contour_to_python_swapped(contour) ==
    Ok(PyList([i \in 1..Len(contour) |->
                  PyTuple(<<PyFloat(contour[i][2]), PyFloat(contour[i][1])>>)]))

\* A mutation of contour_to_python: only the first two points are written.
contour_to_python_two_points(contour) ==
    Ok(PyList([i \in 1..(IF Len(contour) > 2 THEN 2 ELSE Len(contour)) |->
                  PyTuple(<<PyFloat(contour[i][1]), PyFloat(contour[i][2])>>)]))

contour_to_python(contour) ==
    Ok(PyList([i \in 1..Len(contour) |->
                  PyTuple(<<PyFloat(contour[i][1]), PyFloat(contour[i][2])>>)]))

shape_to_python(shape) ==
    LET py_contours == CollectResults([i \in 1..Len(shape) |->
                                          contour_to_python(shape[i])])
    IN  IF ~py_contours.ok THEN py_contours ELSE Ok(PyList(py_contours.val))

shapes_to_python(shapes) ==
    LET py_shapes == CollectResults([i \in 1..Len(shapes) |->
                                        shape_to_python(shapes[i])])
    IN  IF ~py_shapes.ok THEN py_shapes ELSE Ok(PyList(py_shapes.val))

paths_to_python(paths) ==
    LET py_paths == CollectResults([i \in 1..Len(paths) |->
                                       contour_to_python(paths[i])])
    IN  IF ~py_paths.ok THEN py_paths ELSE Ok(PyList(py_paths.val))

(***************************************************************************)
(* The enums of the binding are their discriminants; the engine's enums    *)
(* are their variant names.                                               *)
(***************************************************************************)
PyFillRules == 0..3
PyOverlayRules == 0..6
PyContourDirections == 0..1

\* A mutation of the FillRule conversion: Positive and Negative exchanged.
FillRuleFromPy_swapped(value) ==
    CASE value = 0 -> "EvenOdd"
      [] value = 1 -> "NonZero"
      [] value = 2 -> "Negative"
      [] value = 3 -> "Positive"

\* impl From<PyFillRule> for FillRule
FillRuleFromPy(value) ==
    CASE value = 0 -> "EvenOdd"
      [] value = 1 -> "NonZero"
      [] value = 2 -> "Positive"
      [] value = 3 -> "Negative"

\* impl From<FillRule> for PyFillRule
FillRuleToPy(value) ==
    CASE value = "EvenOdd" -> 0
      [] value = "NonZero" -> 1
      [] value = "Positive" -> 2
      [] value = "Negative" -> 3

\* A mutation of the OverlayRule conversion: Xor handed on as Union.
OverlayRuleFromPy_xor_as_union(value) ==
    CASE value = 0 -> "Subject"
      [] value = 1 -> "Clip"
      [] value = 2 -> "Intersect"
      [] value = 3 -> "Union"
      [] value = 4 -> "Difference"
      [] value = 5 -> "InverseDifference"
      [] value = 6 -> "Union"

\* A mutation of the OverlayRule conversion: Union handed on as Subject.
OverlayRuleFromPy_union_as_subject(value) ==
    CASE value = 0 -> "Subject"
      [] value = 1 -> "Clip"
      [] value = 2 -> "Intersect"
      [] value = 3 -> "Subject"
      [] value = 4 -> "Difference"
      [] value = 5 -> "InverseDifference"
      [] value = 6 -> "Xor"

\* A mutation of the OverlayRule conversion: InverseDifference handed on as
\* Difference.
OverlayRuleFromPy_inverse_as_difference(value) ==
    CASE value = 0 -> "Subject"
      [] value = 1 -> "Clip"
      [] value = 2 -> "Intersect"
      [] value = 3 -> "Union"
      [] value = 4 -> "Difference"
      [] value = 5 -> "Difference"
      [] value = 6 -> "Xor"

\* A mutation of the OverlayRule conversion: Intersect handed on as Clip.
OverlayRuleFromPy_intersect_as_clip(value) ==
    CASE value = 0 -> "Subject"
      [] value = 1 -> "Clip"
      [] value = 2 -> "Clip"
      [] value = 3 -> "Union"
      [] value = 4 -> "Difference"
      [] value = 5 -> "InverseDifference"
      [] value = 6 -> "Xor"

\* impl From<PyOverlayRule> for OverlayRule
OverlayRuleFromPy(value) ==
    CASE value = 0 -> "Subject"
      [] value = 1 -> "Clip"
      [] value = 2 -> "Intersect"
      [] value = 3 -> "Union"
      [] value = 4 -> "Difference"
      [] value = 5 -> "InverseDifference"
      [] value = 6 -> "Xor"

\* impl From<PyContourDirection> for ContourDirection
ContourDirectionFromPy(value) ==
    CASE value = 0 -> "CounterClockwise"
      [] value = 1 -> "Clockwise"

(***************************************************************************)
(* Numbers beyond 32-bit integers.  [hi, lo] stands for                    *)
(* hi * 2^53 + lo with hi in {0, 1} and lo small; 2^53 is where an f64     *)
(* stops holding every integer.                                            *)
(***************************************************************************)
Num(n) == [hi |-> 0, lo |-> n]
Big(n) == [hi |-> 1, lo |-> n]

NumLess(a, b) == a.hi < b.hi \/ (a.hi = b.hi /\ a.lo < b.lo)

\* `value as f64` for a u64: exact up to 2^53; between 2^53 and 2^54 the f64
\* values are the even integers, and the cast rounds to the nearest of them,
\* a tie going to the one whose mantissa is even (a multiple of 4 here).
U64AsF64(n) ==
    IF n.hi = 0 \/ n.lo <= 0 \/ n.lo % 2 = 0 THEN n
    ELSE IF (n.lo - 1) % 4 = 0 THEN [n EXCEPT !.lo = n.lo - 1]
         ELSE [n EXCEPT !.lo = n.lo + 1]

(***************************************************************************)
(* OverlayOptions.                                                         *)
(***************************************************************************)
\* PyOverlayOptions::new
PyOverlayOptions_new(preserve_input_collinear, output_direction, preserve_output_collinear, min_output_area) ==
    [preserve_input_collinear |-> preserve_input_collinear,
     output_direction |-> output_direction,
     preserve_output_collinear |-> preserve_output_collinear,
     min_output_area |-> min_output_area]

\* impl Default for PyOverlayOptions
PyOverlayOptions_default == PyOverlayOptions_new(FALSE, 0, FALSE, Num(0))

build_overlay_options(py_options) ==
    [preserve_input_collinear |-> py_options.preserve_input_collinear,
     output_direction |-> ContourDirectionFromPy(py_options.output_direction),
     preserve_output_collinear |-> py_options.preserve_output_collinear,
     min_output_area |-> U64AsF64(py_options.min_output_area),
     clean_result |-> TRUE]

(***************************************************************************)
(* The overlay engine on the integer grid.  Contours are rectilinear with  *)
(* integer vertices, so every face of the arrangement is a union of unit   *)
(* cells; the cell <<i, j>> is the unit square with lower left corner      *)
(* (i, j).                                                                 *)
(***************************************************************************)
SquareSide == 2    \* the side of the squares the callers pass
MaxOff == 2        \* the squares sit at (o, o) for o in 0..MaxOff

GridMax == MaxOff + SquareSide
Cells == (0..(GridMax - 1)) \X (0..(GridMax - 1))

\* The edges of an operand, each <<shape, contour, index of its first point>>;
\* a contour is closed implicitly.
EdgeIndex(shapes) ==
    UNION {UNION {{<<s, c, k>> : k \in 1..Len(shapes[s][c])}
                  : c \in 1..Len(shapes[s])}
           : s \in 1..Len(shapes)}

EdgeFrom(shapes, e) == shapes[e[1]][e[2]][e[3]]
EdgeTo(shapes, e) ==
    shapes[e[1]][e[2]][(e[3] % Len(shapes[e[1]][e[2]])) + 1]

\* The vertical edges of an operand: where each stands, the rows it spans
\* and whether it runs upwards.
VerticalEdges(shapes) ==
    {[id |-> e,
      x |-> EdgeFrom(shapes, e)[1],
      lo |-> IF EdgeFrom(shapes, e)[2] < EdgeTo(shapes, e)[2]
             THEN EdgeFrom(shapes, e)[2] ELSE EdgeTo(shapes, e)[2],
      hi |-> IF EdgeFrom(shapes, e)[2] < EdgeTo(shapes, e)[2]
             THEN EdgeTo(shapes, e)[2] ELSE EdgeFrom(shapes, e)[2],
      up |-> EdgeFrom(shapes, e)[2] < EdgeTo(shapes, e)[2]]
     : e \in {f \in EdgeIndex(shapes) :
                 /\ EdgeFrom(shapes, f)[1] = EdgeTo(shapes, f)[1]
                 /\ EdgeFrom(shapes, f)[2] # EdgeTo(shapes, f)[2]}}

\* The winding number around a cell: the crossings of the ray from the
\* cell's centre towards +x, an upward edge counting +1 and a downward edge
\* -1, so that a counter-clockwise contour winds +1.
WindingIn(vertical, cell) ==
    LET crossed == {v \in vertical : /\ v.x > cell[1]
                                     /\ v.lo <= cell[2]
                                     /\ v.hi > cell[2]}
    IN  Cardinality({v \in crossed : v.up})
            - Cardinality({v \in crossed : ~v.up})

Winding(shapes, cell) == WindingIn(VerticalEdges(shapes), cell)

\* The fill rule as a predicate over a face's winding number.
FillPredicate(rule, w) ==
    CASE rule = "EvenOdd" -> w % 2 = 1
      [] rule = "NonZero" -> w # 0
      [] rule = "Positive" -> w > 0
      [] rule = "Negative" -> w < 0

\* The overlay rule as a relation between the two operands' fill of a face.
RulePredicate(rule, in_subject, in_clip) ==
    CASE rule = "Subject" -> in_subject
      [] rule = "Clip" -> in_clip
      [] rule = "Intersect" -> in_subject /\ in_clip
      [] rule = "Union" -> in_subject \/ in_clip
      [] rule = "Difference" -> in_subject /\ ~in_clip
      [] rule = "InverseDifference" -> in_clip /\ ~in_subject
      [] rule = "Xor" -> in_subject # in_clip

\* The cells an operand fills under a fill rule.
Filled(shapes, rule) ==
    LET vertical == VerticalEdges(shapes)
    IN  {c \in Cells : FillPredicate(rule, WindingIn(vertical, c))}

\* FloatOverlay::with_subj_and_clip_custom
FloatOverlay_with_subj_and_clip_custom(subj, clp, opts, slv) ==
    [subject |-> subj, clip |-> clp, options |-> opts, solver |-> slv]

\* float_overlay.build_graph_view(fill_rule): the faces classified per
\* operand under the fill rule, or none when the operands have no edge.
FloatOverlay_build_graph_view(fo, rule) ==
    IF EdgeIndex(fo.subject) = {} /\ EdgeIndex(fo.clip) = {} THEN NoneValue
    ELSE [t |-> "graph",
          subject_fill |-> Filled(fo.subject, rule),
          clip_fill |-> Filled(fo.clip, rule),
          options |-> fo.options]

\* The faces a graph view keeps under an overlay rule.
GraphRegion(g, rule) ==
    {c \in Cells : RulePredicate(rule, c \in g.subject_fill, c \in g.clip_fill)}

\* The directed boundary of a set of cells, the filled side on the left.
BoundaryEdges(region) ==
    UNION {
        (IF <<c[1], c[2] - 1>> \in region THEN {}
         ELSE {<< c, <<c[1] + 1, c[2]>> >>})
        \cup
        (IF <<c[1] + 1, c[2]>> \in region THEN {}
         ELSE {<< <<c[1] + 1, c[2]>>, <<c[1] + 1, c[2] + 1>> >>})
        \cup
        (IF <<c[1], c[2] + 1>> \in region THEN {}
         ELSE {<< <<c[1] + 1, c[2] + 1>>, <<c[1], c[2] + 1>> >>})
        \cup
        (IF <<c[1] - 1, c[2]>> \in region THEN {}
         ELSE {<< <<c[1], c[2] + 1>>, c >>})
        : c \in region}

Heading(e) == <<e[2][1] - e[1][1], e[2][2] - e[1][2]>>

\* The filled cell on the left of a boundary edge.
LeftCell(e) ==
    LET d == Heading(e)
    IN  CASE d = <<1, 0>> -> e[1]
          [] d = <<0, 1>> -> <<e[1][1] - 1, e[1][2]>>
          [] d = <<-1, 0>> -> <<e[1][1] - 1, e[1][2] - 1>>
          [] d = <<0, -1>> -> <<e[1][1], e[1][2] - 1>>

\* The edge a walk follows after e: the leftmost turn at e's end.
NextEdge(edges, e) ==
    LET d == Heading(e)
        q == e[2]
        left == <<q, <<q[1] - d[2], q[2] + d[1]>> >>
        ahead == <<q, <<q[1] + d[1], q[2] + d[2]>> >>
        right == <<q, <<q[1] + d[2], q[2] - d[1]>> >>
    IN  IF left \in edges THEN left
        ELSE IF ahead \in edges THEN ahead
        ELSE right

\* The walk from `start`: the edges followed until the walk is back at it.
RECURSIVE WalkFrom(_, _, _)
WalkFrom(edges, start, acc) ==
    LET next == NextEdge(edges, acc[Len(acc)])
    IN  IF next = start THEN acc ELSE WalkFrom(edges, start, Append(acc, next))

PointLess(p, q) == p[1] < q[1] \/ (p[1] = q[1] /\ p[2] < q[2])
EdgeLess(e, f) ==
    PointLess(e[1], f[1]) \/ (e[1] = f[1] /\ PointLess(e[2], f[2]))

SeqRange(sq) == {sq[i] : i \in 1..Len(sq)}

\* Every walk of the boundary, each started at the least unvisited edge.
RECURSIVE Walks(_, _)
Walks(edges, unvisited) ==
    IF unvisited = {} THEN << >>
    ELSE LET start == CHOOSE e \in unvisited :
                          \A f \in unvisited : f = e \/ EdgeLess(e, f)
             walk == WalkFrom(edges, start, <<start>>)
         IN  <<walk>> \o Walks(edges, unvisited \ SeqRange(walk))

\* The vertices of a walk with the collinear ones removed: a vertex stays
\* where the walk turns.
WalkVertices(walk) ==
    LET n == Len(walk)
        turns == SelectSeq([k \in 1..n |-> k],
                     LAMBDA k : Heading(walk[k]) #
                                Heading(walk[IF k = 1 THEN n ELSE k - 1]))
    IN  [i \in 1..Len(turns) |-> walk[turns[i]][1]]

\* Twice the signed area of a contour (the shoelace sum), positive for a
\* counter-clockwise contour.
RECURSIVE ShoelaceFrom(_, _)
ShoelaceFrom(contour, i) ==
    IF i > Len(contour) THEN 0
    ELSE LET j == (i % Len(contour)) + 1
         IN  contour[i][1] * contour[j][2] - contour[j][1] * contour[i][2]
             + ShoelaceFrom(contour, i + 1)

SignedArea2(contour) == ShoelaceFrom(contour, 1)

Abs(x) == IF x < 0 THEN -x ELSE x

ContourArea(contour) == Abs(SignedArea2(contour)) \div 2

Reverse(sq) == [i \in 1..Len(sq) |-> sq[Len(sq) + 1 - i]]

\* The area threshold: a contour is dropped when its absolute area is below
\* min_output_area.
AreaKept(area, opts) == ~NumLess(area, opts.min_output_area)

\* Rule extraction: the walks of the kept faces' boundary become contours,
\* the contours below the area threshold are dropped, every outer contour
\* becomes a shape followed by the holes of its own piece, and the contours
\* are turned so that outer contours run in the output direction.
ExtractRegion(region, opts) ==
    LET edges == BoundaryEdges(region)
        walks == Walks(edges, edges)
        traced == [k \in 1..Len(walks) |->
                      [points |-> WalkVertices(walks[k]),
                       cell |-> LeftCell(walks[k][1])]]
        kept == SelectSeq(traced,
                    LAMBDA c : AreaKept(Num(ContourArea(c.points)), opts))
        outers == SelectSeq(kept, LAMBDA c : SignedArea2(c.points) > 0)
        holes == SelectSeq(kept, LAMBDA c : SignedArea2(c.points) < 0)
        Inside(h, o) == Winding(<< <<o.points>> >>, h.cell) # 0
        Owner(h) == CHOOSE o \in SeqRange(outers) :
                        /\ Inside(h, o)
                        /\ \A u \in SeqRange(outers) :
                              Inside(h, u) =>
                                  ContourArea(o.points) <= ContourArea(u.points)
        Turned(c) == IF opts.output_direction = "Clockwise"
                     THEN Reverse(c.points) ELSE c.points
        ShapeOf(o) ==
            LET own == SelectSeq(holes, LAMBDA h : Owner(h) = o)
            IN  <<Turned(o)>> \o [i \in 1..Len(own) |-> Turned(own[i])]
    IN  [k \in 1..Len(outers) |-> ShapeOf(outers[k])]

\* graph.extract_shapes(overlay_rule, buffer)
Graph_extract_shapes(g, overlay_rule) ==
    ExtractRegion(GraphRegion(g, overlay_rule), g.options)

\* float_overlay.overlay(overlay_rule, fill_rule)
FloatOverlay_overlay(fo, overlay_rule, rule) ==
    LET g == FloatOverlay_build_graph_view(fo, rule)
    IN  IF g = NoneValue THEN << >> ELSE Graph_extract_shapes(g, overlay_rule)

(***************************************************************************)
(* Solver.                                                                 *)
(***************************************************************************)
\* impl From<PyStrategy> for Strategy
StrategyFromPy(value) ==
    CASE value = 0 -> "List"
      [] value = 1 -> "Tree"
      [] value = 2 -> "Frag"
      [] value = 3 -> "Auto"

\* A mutation of the conversion: the two fields change places.
PrecisionFromPy_swapped(value) ==
    [start |-> value.progression, progression |-> value.start]

\* impl From<PyPrecision> for Precision
PrecisionFromPy(value) ==
    [start |-> value.start, progression |-> value.progression]

\* PyPrecision::HIGH
PyPrecision_HIGH == [start |-> 0, progression |-> 1]

\* PySolver::new; `precision` is NoneValue when the caller gives none.
PySolver_new(strategy, precision, multithreading) ==
    [strategy |-> strategy,
     precision |-> IF precision = NoneValue THEN PyPrecision_HIGH
                   ELSE precision,
     multithreading |-> multithreading]

\* impl From<&PySolver> for Solver
SolverFromPy(value) ==
    [strategy |-> StrategyFromPy(value.strategy),
     precision |-> PrecisionFromPy(value.precision),
     multithreading |-> IF value.multithreading
                        THEN [t |-> "Some", v |-> "MultithreadOptions::default"]
                        ELSE NoneValue]

\* Solver::default() of the engine.
Solver_default ==
    [strategy |-> "Auto",
     precision |-> [start |-> 0, progression |-> 1],
     multithreading |-> [t |-> "Some", v |-> "MultithreadOptions::default"]]

build_solver(py_solver) ==
    IF py_solver # NoneValue THEN SolverFromPy(py_solver) ELSE Solver_default

(***************************************************************************)
(* The entry points of the binding.                                        *)
(***************************************************************************)
create_float_overlay(subj, clp, opts, slv) ==
    FloatOverlay_with_subj_and_clip_custom(subj, clp, opts, slv)

\* A mutation of perform_overlay: the caller's options are not looked at.
perform_overlay_default_options(subj, clp, overlay_rule, rule, py_options, py_solver) ==
    LET rust_options == build_overlay_options(PyOverlayOptions_default)
        slv == build_solver(py_solver)
        float_overlay == create_float_overlay(subj, clp, rust_options, slv)
    IN  FloatOverlay_overlay(float_overlay, overlay_rule, rule)

perform_overlay(subj, clp, overlay_rule, rule, py_options, py_solver) ==
    LET options_ref == IF py_options = NoneValue THEN PyOverlayOptions_default
                       ELSE py_options
        rust_options == build_overlay_options(options_ref)
        slv == build_solver(py_solver)
        float_overlay == create_float_overlay(subj, clp, rust_options, slv)
    IN  FloatOverlay_overlay(float_overlay, overlay_rule, rule)

overlay(py_subject, py_clip, py_overlay_rule, py_fill_rule, py_options, py_solver) ==
    LET subj_shapes == extract_shapes(py_subject)
        clip_shapes == extract_shapes(py_clip)
    IN  IF ~subj_shapes.ok THEN subj_shapes
        ELSE IF ~clip_shapes.ok THEN clip_shapes
        ELSE shapes_to_python(
                 perform_overlay(subj_shapes.val, clip_shapes.val,
                                 OverlayRuleFromPy(py_overlay_rule),
                                 FillRuleFromPy(py_fill_rule),
                                 py_options, py_solver))

\* simplify.rs takes build_overlay_options from crate::options; it is given
\* the body overlay.rs, slice.rs, stroke.rs and outline.rs share.
perform_simplify(shapes, rule, py_options, py_solver) ==
    LET options_ref == IF py_options = NoneValue THEN PyOverlayOptions_default
                       ELSE py_options
        rust_options == build_overlay_options(options_ref)
        slv == build_solver(py_solver)
        empty_clip == << >>
        float_overlay ==
            FloatOverlay_with_subj_and_clip_custom(shapes, empty_clip,
                                                   rust_options, slv)
    IN  FloatOverlay_overlay(float_overlay, "Subject", rule)

simplify_shape(py_shapes, py_fill_rule, py_options, py_solver) ==
    LET rust_shapes == extract_shapes(py_shapes)
    IN  IF ~rust_shapes.ok THEN rust_shapes
        ELSE shapes_to_python(
                 perform_simplify(rust_shapes.val, FillRuleFromPy(py_fill_rule),
                                  py_options, py_solver))

\* PyFloatOverlayGraph::new: the object keeps the converted operands, the
\* engine's fill rule, the options (the default ones when none are given)
\* and the solver as given.
PyFloatOverlayGraph_new(py_subject, py_clip, py_fill_rule, py_options, py_solver) ==
    LET subj_shapes == extract_shapes(py_subject)
        clip_shapes == extract_shapes(py_clip)
    IN  IF ~subj_shapes.ok THEN subj_shapes
        ELSE IF ~clip_shapes.ok THEN clip_shapes
        ELSE Ok([subject |-> subj_shapes.val,
                 clip |-> clip_shapes.val,
                 fill_rule |-> FillRuleFromPy(py_fill_rule),
                 options |-> IF py_options = NoneValue
                             THEN PyOverlayOptions_default ELSE py_options,
                 solver |-> py_solver])

\* PyFloatOverlayGraph::extract_shapes: a FloatOverlay is created from the
\* stored fields, its graph view is built, and the shapes are extracted from
\* the view (none when there is no view).
PyFloatOverlayGraph_extract_shapes(self, py_overlay_rule) ==
    LET rust_options == build_overlay_options(self.options)
        slv == build_solver(self.solver)
        float_overlay == create_float_overlay(self.subject, self.clip,
                                              rust_options, slv)
        view == FloatOverlay_build_graph_view(float_overlay, self.fill_rule)
        result == IF view # NoneValue
                  THEN Graph_extract_shapes(view,
                                            OverlayRuleFromPy(py_overlay_rule))
                  ELSE << >>
    IN  shapes_to_python(result)

(***************************************************************************)
(* The conversion round trip: a Rust value goes to Python and comes back.  *)
(***************************************************************************)
MaxCoordT == 1     \* coordinates of the converted points: 0..MaxCoordT
MaxNodes == 5      \* shapes + contours + points of one converted value

\* The points converted: x + y = MaxCoordT, so that x # y occurs.
PointsT == {<<x, MaxCoordT - x>> : x \in 0..MaxCoordT}

\* A contour of k - 1 points counts k nodes.
ContoursOfCost(k) == [1..(k - 1) -> PointsT]

\* The sequences of contours that count m nodes together.
RECURSIVE ContourSeqs(_)
ContourSeqs(m) ==
    IF m = 0 THEN {<< >>}
    ELSE UNION {{<<c>> \o r : c \in ContoursOfCost(k), r \in ContourSeqs(m - k)}
                : k \in 1..m}

\* A shape counts one node more than its contours.
ShapesOfCost(k) == ContourSeqs(k - 1)

RECURSIVE ShapeSeqs(_)
ShapeSeqs(m) ==
    IF m = 0 THEN {<< >>}
    ELSE UNION {{<<s>> \o r : s \in ShapesOfCost(k), r \in ShapeSeqs(m - k)}
                : k \in 1..m}

AllShapes == UNION {ShapeSeqs(m) : m \in 0..MaxNodes}
AllPaths == UNION {ContourSeqs(m) : m \in 0..MaxNodes}

IdleSession ==
    /\ subject = NoneValue
    /\ clip = NoneValue
    /\ fill_rule = 0
    /\ options = NoneValue
    /\ solver = NoneValue
    /\ call = NoneValue

IdleGraph ==
    /\ graph = NoneValue
    /\ builds = 0

IdleTypes ==
    /\ rust = NoneValue
    /\ py = NoneValue
    /\ back = NoneValue

IdleArgs ==
    /\ polylines = NoneValue
    /\ clip_rule = NoneValue
    /\ style = NoneValue
    /\ is_closed = FALSE

IdleEngine ==
    /\ harness = NoneValue
    /\ pool = NoneValue
    /\ callers = NoneValue
    /\ extraction = NoneValue
    /\ refinement = NoneValue

IdleAux == IdleArgs /\ IdleEngine

InitTypes ==
    /\ IdleAux
    /\ IdleSession
    /\ IdleGraph
    /\ candidates = {}
    /\ \/ \E s \in AllShapes : rust = [kind |-> "Shapes", val |-> s]
       \/ \E p \in AllPaths : rust = [kind |-> "Paths", val |-> p]
    /\ py = NoneValue
    /\ back = NoneValue

\* shapes_to_python / paths_to_python of the Rust value.
ToPython ==
    /\ py = NoneValue
    /\ py' = IF rust.kind = "Shapes" THEN shapes_to_python(rust.val)
                                     ELSE paths_to_python(rust.val)
    /\ UNCHANGED <<rust, back, candidates>>
    /\ UNCHANGED auxVars
    /\ UNCHANGED sessionVars
    /\ UNCHANGED graphVars

\* extract_shapes / extract_paths of the Python object just produced.
FromPython ==
    /\ py # NoneValue
    /\ py.ok
    /\ back = NoneValue
    /\ back' = IF rust.kind = "Shapes" THEN extract_shapes(py.val)
                                       ELSE extract_paths(py.val)
    /\ UNCHANGED <<rust, py, candidates>>
    /\ UNCHANGED auxVars
    /\ UNCHANGED sessionVars
    /\ UNCHANGED graphVars

NextTypes == ToPython \/ FromPython

SpecTypes == InitTypes /\ [][NextTypes]_vars

\* C2: a Shapes value converted with shapes_to_python and back with
\* extract_shapes, and a Paths value converted with paths_to_python and back
\* with extract_paths, comes back as exactly the value that went out: the
\* same points in the same order in every contour, the same contours in the
\* same order in every shape, the same shapes in the same order.
C2_RoundTrip ==
    back # NoneValue => back = Ok(rust.val)

\* A value of two shapes came back, the first with two contours of which one
\* is empty and one holds a point whose coordinates differ.
C2_Witness ==
    /\ back # NoneValue
    /\ rust.kind = "Shapes"
    /\ Len(rust.val) = 2
    /\ Len(rust.val[1]) = 2
    /\ \E i \in 1..2 : rust.val[1][i] = << >>
    /\ \E i \in 1..2 : \E j \in 1..Len(rust.val[1][i]) :
          rust.val[1][i][j][1] # rust.val[1][i][j][2]
    /\ rust.val[2] = << >>

(***************************************************************************)
(* A caller's session: the arguments are fixed, then one entry point is    *)
(* called with them.                                                       *)
(***************************************************************************)
MaxCopies == 2     \* an operand holds 1..MaxCopies copies of its square

\* The square at (o, o) as the callers write it, clockwise from its lower
\* left corner: [(o, o), (o, o + 2), (o + 2, o + 2), (o + 2, o)].
Square(o) ==
    << <<o, o>>, <<o, o + SquareSide>>, <<o + SquareSide, o + SquareSide>>,
       <<o + SquareSide, o>> >>

\* The Python literal of a Shapes value:
\* list[list[list[tuple[float, float]]]].
PyShapes(shapes) ==
    PyList([s \in 1..Len(shapes) |->
        PyList([c \in 1..Len(shapes[s]) |->
            PyList([k \in 1..Len(shapes[s][c]) |->
                PyTuple(<<PyFloat(shapes[s][c][k][1]),
                          PyFloat(shapes[s][c][k][2])>>)])])])

\* n shapes, each the square at (o, o), clockwise or counter-clockwise.
Squares(o, ccw, n) ==
    [s \in 1..n |-> << IF ccw THEN Reverse(Square(o)) ELSE Square(o) >>]

OperandInputs ==
    {PyShapes(<< >>)} \cup
    {PyShapes(Squares(o, ccw, n)) :
        o \in 0..MaxOff, ccw \in BOOLEAN, n \in 1..MaxCopies}

OptionInputs ==
    {NoneValue, PyOverlayOptions_new(FALSE, 1, FALSE, Num(0))}

Init ==
    /\ IdleAux
    /\ subject \in OperandInputs
    /\ clip \in OperandInputs
    /\ fill_rule \in PyFillRules
    /\ options \in OptionInputs
    /\ solver = NoneValue
    /\ call = NoneValue
    /\ IdleGraph
    /\ IdleTypes
    /\ candidates = {}

CallOverlay(r) ==
    /\ call = NoneValue
    /\ call' = [fn |-> "overlay", rule |-> r, input |-> subject,
                ret |-> overlay(subject, clip, r, fill_rule, options, solver)]
    /\ UNCHANGED <<subject, clip, fill_rule, options, solver, candidates>>
    /\ UNCHANGED auxVars
    /\ UNCHANGED graphVars
    /\ UNCHANGED typeVars

CallSimplify ==
    /\ call = NoneValue
    /\ call' = [fn |-> "simplify_shape", rule |-> 0, input |-> subject,
                ret |-> simplify_shape(subject, fill_rule, options, solver)]
    /\ UNCHANGED <<subject, clip, fill_rule, options, solver, candidates>>
    /\ UNCHANGED auxVars
    /\ UNCHANGED graphVars
    /\ UNCHANGED typeVars

\* simplify_shape called on what simplify_shape just returned.
CallSimplifyAgain ==
    /\ call # NoneValue
    /\ call.fn = "simplify_shape"
    /\ call.ret.ok
    /\ call' = [fn |-> "simplify_shape again", rule |-> 0,
                input |-> call.ret.val,
                ret |-> simplify_shape(call.ret.val, fill_rule, options,
                                       solver)]
    /\ UNCHANGED <<subject, clip, fill_rule, options, solver, candidates>>
    /\ UNCHANGED auxVars
    /\ UNCHANGED graphVars
    /\ UNCHANGED typeVars

Next ==
    \/ \E r \in PyOverlayRules : CallOverlay(r)
    \/ CallSimplify
    \/ CallSimplifyAgain

Spec == Init /\ [][Next]_vars

(***************************************************************************)
(* What the properties measure.                                            *)
(***************************************************************************)
\* The Shapes a returned Python object holds.
ShapesOf(ret) == extract_shapes(ret.val).val

\* The cells a returned set of shapes covers.
RegionOf(shapes) == Filled(shapes, "NonZero")

RECURSIVE SumAreas(_, _)
SumAreas(contours, i) ==
    IF i > Len(contours) THEN 0
    ELSE ContourArea(contours[i]) + SumAreas(contours, i + 1)

\* The area of returned shapes: every outer contour less its holes.
RECURSIVE AreaFrom(_, _)
AreaFrom(shapes, s) ==
    IF s > Len(shapes) THEN 0
    ELSE (IF shapes[s] = << >> THEN 0
          ELSE ContourArea(shapes[s][1]) - SumAreas(shapes[s], 2))
         + AreaFrom(shapes, s + 1)

AreaOf(shapes) == AreaFrom(shapes, 1)

\* overlay called with this session's arguments and rule r, operands as given
\* or exchanged.
OverlayOf(r) ==
    ShapesOf(overlay(subject, clip, r, fill_rule, options, solver))
SwappedOverlayOf(r) ==
    ShapesOf(overlay(clip, subject, r, fill_rule, options, solver))

OverlayReturned(r) ==
    /\ call # NoneValue
    /\ call.fn = "overlay"
    /\ call.rule = r
    /\ call.ret.ok

\* The area an operand fills under the session's fill rule.
OperandArea(operand) ==
    Cardinality(Filled(extract_shapes(operand).val, FillRuleFromPy(fill_rule)))

Min(a, b) == IF a < b THEN a ELSE b
Max(a, b) == IF a < b THEN b ELSE a

\* C3: under every fill rule the region of Xor is the region of Union less
\* the region of Intersect, and area(Xor) = area(Union) - area(Intersect).
C3_XorIsUnionMinusIntersect ==
    OverlayReturned(6) =>
        LET x == ShapesOf(call.ret)
            u == OverlayOf(3)
            i == OverlayOf(2)
        IN  /\ RegionOf(x) = RegionOf(u) \ RegionOf(i)
            /\ AreaOf(x) = AreaOf(u) - AreaOf(i)

\* Xor returned for operands that overlap in part.
C3_Witness ==
    /\ OverlayReturned(6)
    /\ RegionOf(OverlayOf(2)) # {}
    /\ RegionOf(ShapesOf(call.ret)) # {}

\* C4: Difference, Intersect and InverseDifference are pairwise disjoint and
\* together cover exactly the region of Union, no area counted twice.
C4_UnionPartition ==
    OverlayReturned(3) =>
        LET u == ShapesOf(call.ret)
            d == OverlayOf(4)
            i == OverlayOf(2)
            v == OverlayOf(5)
        IN  /\ RegionOf(d) \cap RegionOf(i) = {}
            /\ RegionOf(d) \cap RegionOf(v) = {}
            /\ RegionOf(i) \cap RegionOf(v) = {}
            /\ RegionOf(u) = RegionOf(d) \cup RegionOf(i) \cup RegionOf(v)
            /\ AreaOf(u) = AreaOf(d) + AreaOf(i) + AreaOf(v)

\* Union returned where all three parts are non-empty.
C4_Witness ==
    /\ OverlayReturned(3)
    /\ RegionOf(OverlayOf(4)) # {}
    /\ RegionOf(OverlayOf(2)) # {}
    /\ RegionOf(OverlayOf(5)) # {}

\* C5: the area of Intersect is at most the smaller operand's filled area and
\* the area of Union at least the larger operand's, the operands' areas taken
\* under the same fill rule with self-overlap counted once.
C5_AreaBounds ==
    /\ OverlayReturned(2) =>
           AreaOf(ShapesOf(call.ret))
               <= Min(OperandArea(subject), OperandArea(clip))
    /\ OverlayReturned(3) =>
           AreaOf(ShapesOf(call.ret))
               >= Max(OperandArea(subject), OperandArea(clip))

\* Union returned larger than either operand, the subject overlapping
\* itself and filling a region.
C5_Witness ==
    /\ OverlayReturned(3)
    /\ Len(ShapesOf([ok |-> TRUE, val |-> subject])) > 1
    /\ OperandArea(subject) > 0
    /\ AreaOf(ShapesOf(call.ret))
           > Max(OperandArea(subject), OperandArea(clip))

\* The fill predicate each FillRule variant of the binding names.
NamedFill(py_rule, w) ==
    CASE py_rule = 0 -> w % 2 = 1
      [] py_rule = 1 -> w # 0
      [] py_rule = 2 -> w > 0
      [] py_rule = 3 -> w < 0

\* C6: passed through the binding, EvenOdd fills the faces of odd winding,
\* NonZero those of winding # 0, Positive those of winding > 0 and Negative
\* those of winding < 0, and no two variants fill the same faces throughout.
C6_FillRules ==
    /\ OverlayReturned(0) =>
           \A c \in Cells :
               c \in RegionOf(ShapesOf(call.ret))
                   <=> NamedFill(fill_rule,
                                 Winding(extract_shapes(subject).val, c))
    /\ OverlayReturned(1) =>
           \A c \in Cells :
               c \in RegionOf(ShapesOf(call.ret))
                   <=> NamedFill(fill_rule,
                                 Winding(extract_shapes(clip).val, c))
    /\ \A a, b \in PyFillRules :
           a # b => \E w \in (-MaxCopies)..MaxCopies :
                        FillPredicate(FillRuleFromPy(a), w)
                            # FillPredicate(FillRuleFromPy(b), w)

\* The subject resolved under Negative, its faces of winding -2 filled.
C6_Witness ==
    /\ OverlayReturned(0)
    /\ fill_rule = 3
    /\ \E c \in Cells :
          /\ Winding(extract_shapes(subject).val, c) = -2
          /\ c \in RegionOf(ShapesOf(call.ret))

SimplifiedTwice ==
    /\ call # NoneValue
    /\ call.fn = "simplify_shape again"
    /\ call.ret.ok

\* The direction the session's options give the outer contours.
OutputDirection ==
    IF options = NoneValue THEN PyOverlayOptions_default.output_direction
    ELSE options.output_direction

\* C8 as stated: under every fill rule simplify_shape applied to its own
\* output returns that output.
C8_SimplifyIdempotent ==
    SimplifiedTwice => call.ret.val = call.input

\* C8 amended: simplify_shape applied to its own output returns that output
\* under EvenOdd and NonZero, and under Positive and Negative when the outer
\* contours it returns wind with the sign the rule fills (counter-clockwise
\* for Positive, clockwise for Negative).
C8_SimplifyIdempotentSameSign ==
    (/\ SimplifiedTwice
     /\ \/ fill_rule \in {0, 1}
        \/ fill_rule = 2 /\ OutputDirection = 0
        \/ fill_rule = 3 /\ OutputDirection = 1)
    => call.ret.val = call.input

\* A subject that overlaps itself, resolved twice under Positive to one
\* square.
C8_Witness ==
    /\ SimplifiedTwice
    /\ fill_rule = 2
    /\ OutputDirection = 0
    /\ Len(ShapesOf([ok |-> TRUE, val |-> subject])) = 2
    /\ Len(ShapesOf(call.ret)) = 1

\* The scenario of C10: the square at the origin united with the square at
\* (1, 1) under EvenOdd.
UnionScenario ==
    /\ subject = PyShapes(<< <<Square(0)>> >>)
    /\ clip = PyShapes(<< <<Square(1)>> >>)
    /\ fill_rule = 0
    /\ OverlayReturned(3)

\* C10 as stated: the union is one shape of one contour with 6 vertices and
\* area 7.
C10_UnionSixVertices ==
    UnionScenario =>
        LET u == ShapesOf(call.ret)
        IN  /\ Len(u) = 1
            /\ Len(u[1]) = 1
            /\ Len(u[1][1]) = 6
            /\ AreaOf(u) = 7

\* C10 amended: the union is one shape of one contour with 8 vertices and
\* area 7.
C10_UnionEightVertices ==
    UnionScenario =>
        LET u == ShapesOf(call.ret)
        IN  /\ Len(u) = 1
            /\ Len(u[1]) = 1
            /\ Len(u[1][1]) = 8
            /\ AreaOf(u) = 7

\* The scenario called with the default options, one shape returned.
C10_Witness ==
    /\ UnionScenario
    /\ options = NoneValue
    /\ Len(ShapesOf(call.ret)) = 1

\* The scenario of C11: the square at the origin intersected with the square
\* at (1, 1) under EvenOdd.
IntersectScenario ==
    /\ subject = PyShapes(<< <<Square(0)>> >>)
    /\ clip = PyShapes(<< <<Square(1)>> >>)
    /\ fill_rule = 0
    /\ OverlayReturned(2)

\* C11: the intersection is one shape of one contour, the square whose four
\* vertices are (1,1), (1,2), (2,2) and (2,1), of area 1.
C11_IntersectUnitSquare ==
    IntersectScenario =>
        LET u == ShapesOf(call.ret)
        IN  /\ Len(u) = 1
            /\ Len(u[1]) = 1
            /\ Len(u[1][1]) = 4
            /\ SeqRange(u[1][1]) = {<<1, 1>>, <<1, 2>>, <<2, 2>>, <<2, 1>>}
            /\ AreaOf(u) = 1

\* The scenario called with the default options, a contour returned.
C11_Witness ==
    /\ IntersectScenario
    /\ options = NoneValue
    /\ ShapesOf(call.ret) # << >>

(***************************************************************************)
(* A FloatOverlayGraph: constructed once, then asked for shapes under one  *)
(* overlay rule after another.                                             *)
(***************************************************************************)
MaxCalls == 2      \* extract_shapes calls on one graph

GraphOperandInputs ==
    {PyShapes(<< >>)} \cup {PyShapes(Squares(o, FALSE, 1)) : o \in 0..MaxOff}

SolverInputs == {NoneValue, PySolver_new(0, NoneValue, FALSE)}

InitGraph ==
    /\ IdleAux
    /\ subject \in GraphOperandInputs
    /\ clip \in GraphOperandInputs
    /\ fill_rule \in PyFillRules
    /\ options \in OptionInputs
    /\ solver \in SolverInputs
    /\ call = NoneValue
    /\ IdleGraph
    /\ IdleTypes
    /\ candidates = {}

\* FloatOverlayGraph(subject, clip, fill_rule, options=..., solver=...)
NewGraph ==
    /\ graph = NoneValue
    /\ LET made == PyFloatOverlayGraph_new(subject, clip, fill_rule, options,
                                           solver)
       IN  /\ graph' = IF made.ok THEN made.val ELSE NoneValue
           /\ call' = [fn |-> "FloatOverlayGraph", rule |-> 0,
                       input |-> subject,
                       ret |-> IF made.ok THEN Ok(NoneValue) ELSE made]
    /\ UNCHANGED <<subject, clip, fill_rule, options, solver, builds,
                   candidates>>
    /\ UNCHANGED auxVars
    /\ UNCHANGED typeVars

\* A mutation of GraphExtract: the rule of the first extraction stays with
\* the graph.
GraphExtract_first_rule(r) ==
    /\ graph # NoneValue
    /\ builds < MaxCalls
    /\ builds' = builds + 1
    /\ call' = [fn |-> "extract_shapes", rule |-> r, input |-> subject,
                ret |-> PyFloatOverlayGraph_extract_shapes(
                            graph,
                            IF call.fn = "extract_shapes" THEN call.rule
                            ELSE r)]
    /\ UNCHANGED <<subject, clip, fill_rule, options, solver, graph,
                   candidates>>
    /\ UNCHANGED auxVars
    /\ UNCHANGED typeVars

\* graph.extract_shapes(r); the call builds one graph view.
GraphExtract(r) ==
    /\ graph # NoneValue
    /\ builds < MaxCalls
    /\ builds' = builds + 1
    /\ call' = [fn |-> "extract_shapes", rule |-> r, input |-> subject,
                ret |-> PyFloatOverlayGraph_extract_shapes(graph, r)]
    /\ UNCHANGED <<subject, clip, fill_rule, options, solver, graph,
                   candidates>>
    /\ UNCHANGED auxVars
    /\ UNCHANGED typeVars

NextGraph ==
    \/ NewGraph
    \/ \E r \in PyOverlayRules : GraphExtract(r)

SpecGraph == InitGraph /\ [][NextGraph]_vars

\* C1: over the lifetime of one FloatOverlayGraph the graph is built at most
\* once, however many extract_shapes calls are made on it.
C1_BuiltAtMostOnce ==
    graph # NoneValue => builds <= 1

(***************************************************************************)
(* The area threshold: an entry point is called with options whose         *)
(* min_output_area is K while the engine has contours of given absolute    *)
(* areas to emit.                                                          *)
(***************************************************************************)
MaxOffset == 3     \* K and the areas lie within MaxOffset of 0 or of 2^53

\* The u64 values tried for K.
ThresholdInputs ==
    {Num(n) : n \in 0..MaxOffset} \cup {Big(n) : n \in (-MaxOffset)..MaxOffset}

\* The f64 values tried for a contour's absolute area.
AreaInputs == {U64AsF64(k) : k \in ThresholdInputs}

\* The entry points that take OverlayOptions.
OptionEntryPoints ==
    {"overlay", "extract_shapes", "simplify_shape", "slice_by", "stroke",
     "outline"}

InitMinArea ==
    /\ IdleAux
    /\ subject = NoneValue
    /\ clip = NoneValue
    /\ fill_rule = 0
    /\ \E k \in ThresholdInputs, d \in PyContourDirections :
          options = PyOverlayOptions_new(FALSE, d, FALSE, k)
    /\ solver = NoneValue
    /\ call = NoneValue
    /\ IdleGraph
    /\ IdleTypes
    /\ \E a \in AreaInputs : candidates = {a}

\* An entry point called with `options`: it hands build_overlay_options of
\* them to the engine, which emits the contours the threshold keeps.
CallWithOptions(fn) ==
    /\ call = NoneValue
    /\ LET rust_options == build_overlay_options(options)
       IN  call' = [fn |-> fn, rule |-> 0,
                    input |-> rust_options.min_output_area,
                    ret |-> {a \in candidates : AreaKept(a, rust_options)}]
    /\ UNCHANGED <<subject, clip, fill_rule, options, solver, candidates>>
    /\ UNCHANGED auxVars
    /\ UNCHANGED graphVars
    /\ UNCHANGED typeVars

NextMinArea == \E fn \in OptionEntryPoints : CallWithOptions(fn)

SpecMinArea == InitMinArea /\ [][NextMinArea]_vars

\* C9: with min_output_area = K the threshold handed to the engine is K, and
\* no contour returned has an absolute area below K.
C9_MinOutputArea ==
    call # NoneValue =>
        /\ call.input = options.min_output_area
        /\ \A a \in call.ret : ~NumLess(a, options.min_output_area)

(***************************************************************************)
(* Clipping polylines by shapes.  The string engine is modelled on the     *)
(* grid: a polyline of axis-parallel segments with integer vertices falls  *)
(* into unit pieces, each lying between two cells.                         *)
(***************************************************************************)
\* PyClipRule::new; ClipRule() is PyClipRule_new(FALSE, TRUE).
PyClipRule_new(invert, boundary_included) ==
    [invert |-> invert, boundary_included |-> boundary_included]

\* A mutation of the ClipRule conversion: invert negated.
ClipRuleFromPy_inverted(value) ==
    [invert |-> ~value.invert, boundary_included |-> value.boundary_included]

\* impl From<PyClipRule> for ClipRule
ClipRuleFromPy(value) ==
    [invert |-> value.invert, boundary_included |-> value.boundary_included]

Sign(x) == IF x > 0 THEN 1 ELSE IF x < 0 THEN -1 ELSE 0

\* The unit pieces of the segment from p to q, in order.
SegmentPieces(p, q) ==
    LET dx == Sign(q[1] - p[1])
        dy == Sign(q[2] - p[2])
        n == Abs(q[1] - p[1]) + Abs(q[2] - p[2])
    IN  [i \in 1..n |->
            << <<p[1] + (i - 1) * dx, p[2] + (i - 1) * dy>>,
               <<p[1] + i * dx, p[2] + i * dy>> >>]

\* The unit pieces of a path from its k-th point on.
RECURSIVE PathPieces(_, _)
PathPieces(path, k) ==
    IF k >= Len(path) THEN << >>
    ELSE SegmentPieces(path[k], path[k + 1]) \o PathPieces(path, k + 1)

\* The two cells a unit piece lies between.
PieceCells(piece) ==
    LET x == Min(piece[1][1], piece[2][1])
        y == Min(piece[1][2], piece[2][2])
    IN  IF piece[1][2] = piece[2][2]
        THEN {<<x, y>>, <<x, y - 1>>}
        ELSE {<<x, y>>, <<x - 1, y>>}

\* A piece is inside when the region is filled on both of its sides, on the
\* boundary when it is filled on one; the rule keeps the inside pieces (the
\* outside ones when inverted) and the boundary ones when it includes them.
PieceKept(piece, filled, crule) ==
    LET sides == Cardinality(PieceCells(piece) \cap filled)
    IN  \/ sides = 1 /\ crule.boundary_included
        \/ sides = 2 /\ ~crule.invert
        \/ sides = 0 /\ crule.invert

\* A run of kept pieces grown by one piece; a point between two collinear
\* pieces is not a vertex of the run.
ExtendRun(run, piece) ==
    IF run = << >> THEN piece
    ELSE LET n == Len(run)
             straight ==
                 \/ run[n - 1][1] = run[n][1] /\ run[n][1] = piece[2][1]
                 \/ run[n - 1][2] = run[n][2] /\ run[n][2] = piece[2][2]
         IN  IF straight THEN [run EXCEPT ![n] = piece[2]]
             ELSE Append(run, piece[2])

\* The paths a polyline leaves: its maximal runs of kept pieces.
RECURSIVE ClipRuns(_, _, _, _, _)
ClipRuns(pieces, i, run, filled, crule) ==
    IF i > Len(pieces) THEN (IF run = << >> THEN << >> ELSE <<run>>)
    ELSE IF PieceKept(pieces[i], filled, crule)
         THEN ClipRuns(pieces, i + 1, ExtendRun(run, pieces[i]), filled,
                       crule)
         ELSE (IF run = << >> THEN << >> ELSE <<run>>)
              \o ClipRuns(pieces, i + 1, << >>, filled, crule)

RECURSIVE ClipPathsFrom(_, _, _, _)
ClipPathsFrom(paths, k, filled, crule) ==
    IF k > Len(paths) THEN << >>
    ELSE ClipRuns(PathPieces(paths[k], 1), 1, << >>, filled, crule)
         \o ClipPathsFrom(paths, k + 1, filled, crule)

\* FloatStringOverlay::with_shape_and_string(shapes, polylines)
\*     .clip_string_lines_with_solver(fill_rule, clip_rule, solver)
FloatStringOverlay_clip_string_lines(shapes, lines, rule, crule, slv) ==
    ClipPathsFrom(lines, 1, Filled(shapes, rule), crule)

perform_clip(lines, shapes, rule, crule, py_solver) ==
    LET slv == build_solver(py_solver)
    IN  FloatStringOverlay_clip_string_lines(shapes, lines, rule,
                                             crule, slv)

clip_by(py_polylines, py_shapes, py_fill_rule, py_clip_rule, py_solver) ==
    LET rust_polylines == extract_paths(py_polylines)
        rust_shapes == extract_shapes(py_shapes)
    IN  IF ~rust_polylines.ok THEN rust_polylines
        ELSE IF ~rust_shapes.ok THEN rust_shapes
        ELSE paths_to_python(
                 perform_clip(rust_polylines.val, rust_shapes.val,
                              FillRuleFromPy(py_fill_rule),
                              ClipRuleFromPy(py_clip_rule), py_solver))

\* The Python literal of a Paths value: list[list[tuple[float, float]]].
PyPaths(paths) ==
    PyList([p \in 1..Len(paths) |->
        PyList([k \in 1..Len(paths[p]) |->
            PyTuple(<<PyFloat(paths[p][k][1]), PyFloat(paths[p][k][2])>>)])])

\* Polylines entering the grid from the left at height y: straight through
\* to x, or turning down at x and leaving through the bottom.
PolylineInputs ==
    {PyPaths(<< >>)} \cup
    {PyPaths(<< << <<-1, y>>, <<x, y>> >> >>) :
        x \in 1..GridMax + 1, y \in 0..GridMax} \cup
    {PyPaths(<< << <<-1, y>>, <<x, y>>, <<x, -1>> >> >>) :
        x \in 1..GridMax, y \in 0..GridMax}

ClipShapeInputs ==
    {PyShapes(<< >>)} \cup
    {PyShapes(Squares(o, ccw, 1)) : o \in 0..MaxOff, ccw \in BOOLEAN}

ClipRuleInputs == {PyClipRule_new(i, b) : i, b \in BOOLEAN}

\* A clip_by call: `subject` holds the `shapes` argument.
InitClip ==
    /\ IdleEngine
    /\ polylines \in PolylineInputs
    /\ subject \in ClipShapeInputs
    /\ fill_rule \in PyFillRules
    /\ clip_rule \in ClipRuleInputs
    /\ clip = NoneValue
    /\ options = NoneValue
    /\ solver = NoneValue
    /\ style = NoneValue
    /\ is_closed = FALSE
    /\ call = NoneValue
    /\ IdleGraph
    /\ IdleTypes
    /\ candidates = {}

CallClipBy ==
    /\ call = NoneValue
    /\ polylines # NoneValue
    /\ clip_rule # NoneValue
    /\ call' = [fn |-> "clip_by", rule |-> 0, input |-> polylines,
                ret |-> clip_by(polylines, subject, fill_rule, clip_rule,
                                solver)]
    /\ UNCHANGED <<subject, clip, fill_rule, options, solver, candidates>>
    /\ UNCHANGED auxVars
    /\ UNCHANGED graphVars
    /\ UNCHANGED typeVars

NextClip == CallClipBy

SpecClip == InitClip /\ [][NextClip]_vars

\* The paths a returned Python object holds.
PathsOf(ret) == extract_paths(ret.val).val

\* The scenario of C12: the polyline from (-1, 1) to (3, 1) clipped by the
\* square at the origin with the default clip rule, under EvenOdd (the fill
\* rule of the documented call) or NonZero.
ClipScenario ==
    /\ polylines = PyPaths(<< << <<-1, 1>>, <<3, 1>> >> >>)
    /\ subject = PyShapes(<< <<Square(0)>> >>)
    /\ clip_rule = PyClipRule_new(FALSE, TRUE)
    /\ fill_rule \in {0, 1}
    /\ call # NoneValue
    /\ call.fn = "clip_by"
    /\ call.ret.ok

PyLineCaps == 0..2     \* Butt, Round, Square
PyLineJoins == 0..2    \* Bevel, Miter, Round

DEFAULT_ROUND_ANGLE == 1
DEFAULT_MITER_ANGLE == 1

\* Option::Some; Option::None is NoneValue.
Some(v) == [t |-> "Some", v |-> v]

\* Option::unwrap_or
unwrap_or(opt, default) == IF opt = NoneValue THEN default ELSE opt.v

\* Option<Vec<(f64, f64)>> to Option<Vec<[f64; 2]>>
CapPoints(points) ==
    IF points = NoneValue THEN NoneValue
    ELSE Some([i \in 1..Len(points.v) |-> <<points.v[i][1], points.v[i][2]>>])

\* PyStrokeStyle::new
PyStrokeStyle_new(width, start_cap, end_cap, join, round_cap_angle, join_angle, start_cap_points, end_cap_points) ==
    [width |-> width,
     start_cap |-> start_cap,
     end_cap |-> end_cap,
     join |-> join,
     round_cap_angle |-> unwrap_or(round_cap_angle, DEFAULT_ROUND_ANGLE),
     join_angle |-> unwrap_or(join_angle, DEFAULT_MITER_ANGLE),
     start_cap_points |-> CapPoints(start_cap_points),
     end_cap_points |-> CapPoints(end_cap_points)]

\* A mutation of LineCapOf: a Round or Square cap style goes before the
\* custom points.
LineCapOf_style_first(points, cap, round_cap_angle) ==
    IF points # NoneValue /\ cap = 0 THEN [t |-> "Custom", points |-> points.v]
    ELSE CASE cap = 0 -> [t |-> "Butt"]
           [] cap = 1 -> [t |-> "Round", angle |-> round_cap_angle]
           [] cap = 2 -> [t |-> "Square"]

\* The LineCap of one end: the custom points if given, else the cap style.
LineCapOf(points, cap, round_cap_angle) ==
    IF points # NoneValue THEN [t |-> "Custom", points |-> points.v]
    ELSE CASE cap = 0 -> [t |-> "Butt"]
           [] cap = 1 -> [t |-> "Round", angle |-> round_cap_angle]
           [] cap = 2 -> [t |-> "Square"]

LineJoinOf(join, join_angle) ==
    CASE join = 0 -> [t |-> "Bevel"]
      [] join = 1 -> [t |-> "Miter", angle |-> join_angle]
      [] join = 2 -> [t |-> "Round", angle |-> join_angle]

\* PyStrokeStyle::to_rust_style
PyStrokeStyle_to_rust_style(self) ==
    [width |-> self.width,
     start_cap |-> LineCapOf(self.start_cap_points, self.start_cap,
                             self.round_cap_angle),
     end_cap |-> LineCapOf(self.end_cap_points, self.end_cap,
                           self.round_cap_angle),
     join |-> LineJoinOf(self.join, self.join_angle)]

\* PyOutlineStyle::new
PyOutlineStyle_new(offset, outer_offset, inner_offset, join, join_angle) ==
    [outer_offset |-> unwrap_or(outer_offset, offset),
     inner_offset |-> unwrap_or(inner_offset, offset),
     join |-> join,
     join_angle |-> unwrap_or(join_angle, DEFAULT_MITER_ANGLE)]

\* PyOutlineStyle::to_rust_style
PyOutlineStyle_to_rust_style(self) ==
    [outer_offset |-> self.outer_offset,
     inner_offset |-> self.inner_offset,
     join |-> LineJoinOf(self.join, self.join_angle)]

(***************************************************************************)
(* The mesh offset generator and the slicing of shapes, on the grid.       *)
(* Widths are even and offsets whole, so that every band is a union of     *)
(* cells; the shape of corners and of round or custom caps is not          *)
(* modelled.                                                               *)
(***************************************************************************)
\* OverlayOptions::default() of the engine, used by stroke() and outline().
OverlayOptions_default == build_overlay_options(PyOverlayOptions_default)

\* The cells within `half` of a unit piece, across it.
PieceBand(piece, half) ==
    LET x == Min(piece[1][1], piece[2][1])
        y == Min(piece[1][2], piece[2][2])
    IN  IF piece[1][2] = piece[2][2]
        THEN {<<x, y + k>> : k \in (-half)..(half - 1)}
        ELSE {<<x + k, y>> : k \in (-half)..(half - 1)}

\* A path with a Square cap reaches half the width beyond that end.
CappedPath(path, rust_style, half) ==
    LET n == Len(path)
        Beyond(p, q) == <<p[1] + half * Sign(p[1] - q[1]),
                          p[2] + half * Sign(p[2] - q[2])>>
        first == IF rust_style.start_cap.t = "Square"
                 THEN Beyond(path[1], path[2]) ELSE path[1]
        last == IF rust_style.end_cap.t = "Square"
                THEN Beyond(path[n], path[n - 1]) ELSE path[n]
    IN  IF n < 2 THEN path
        ELSE [k \in 1..n |-> IF k = 1 THEN first
                             ELSE IF k = n THEN last ELSE path[k]]

\* The band swept along one path; the engine takes a negative width as 0.
StrokeBand(path, rust_style, closed) ==
    LET half == Max(0, rust_style.width) \div 2
        line == IF closed /\ Len(path) > 1 THEN Append(path, path[1])
                ELSE CappedPath(path, rust_style, half)
        pieces == PathPieces(line, 1)
    IN  UNION {PieceBand(pieces[i], half) : i \in 1..Len(pieces)}

\* paths.stroke_custom(style, is_closed, options)
Paths_stroke_custom(paths, rust_style, closed, opts) ==
    ExtractRegion(
        Cells \cap UNION {StrokeBand(paths[p], rust_style, closed) :
                             p \in 1..Len(paths)},
        opts)

\* paths.stroke(style, is_closed)
Paths_stroke(paths, rust_style, closed) ==
    Paths_stroke_custom(paths, rust_style, closed, OverlayOptions_default)

\* The cells within d of a cell of S.
Around(S, d) ==
    {c \in Cells : \E e \in S : Abs(c[1] - e[1]) <= d /\ Abs(c[2] - e[2]) <= d}

\* shapes.outline_custom(style, options): the boundary offset outward by
\* outer_offset and inward by inner_offset; a negative offset counts as 0.
Shapes_outline_custom(shapes, rust_style, opts) ==
    LET inside == Filled(shapes, "NonZero")
        outside == Cells \ inside
        outer == Max(0, rust_style.outer_offset)
        inner == Max(0, rust_style.inner_offset)
    IN  ExtractRegion(
            (Around(inside, outer) \ inside)
                \cup (inside \cap Around(outside, inner)),
            opts)

\* shapes.outline(style)
Shapes_outline(shapes, rust_style) ==
    Shapes_outline_custom(shapes, rust_style, OverlayOptions_default)

\* FloatStringOverlay::with_shape_and_string(shapes, polylines)
\*     .build_graph_view_with_solver(fill_rule, solver): none when there is
\* neither an edge nor a polyline segment.
FloatStringOverlay_build_graph_view_with_solver(shapes, lines, rule, slv) ==
    LET pieces == UNION {SeqRange(PathPieces(lines[p], 1)) : p \in 1..Len(lines)}
    IN  IF EdgeIndex(shapes) = {} /\ pieces = {} THEN NoneValue
        ELSE [t |-> "string graph",
              fill |-> Filled(shapes, rule),
              cuts |-> {PieceCells(piece) : piece \in pieces}]

\* The filled cells reachable from `part` without crossing a cut.
RECURSIVE Grow(_, _, _)
Grow(part, fill, cuts) ==
    LET more == {d \in fill \ part :
                    \E c \in part :
                        /\ Abs(c[1] - d[1]) + Abs(c[2] - d[2]) = 1
                        /\ {c, d} \notin cuts}
    IN  IF more = {} THEN part ELSE Grow(part \cup more, fill, cuts)

\* The pieces the cuts leave of the filled region, by their least cell.
RECURSIVE SlicedParts(_, _, _)
SlicedParts(rest, fill, cuts) ==
    IF rest = {} THEN << >>
    ELSE LET least == CHOOSE c \in rest :
                          \A d \in rest : d = c \/ PointLess(c, d)
             part == Grow({least}, fill, cuts)
         IN  <<part>> \o SlicedParts(rest \ part, fill, cuts)

\* graph.extract_shapes_custom(StringRule::Slice, options)
StringGraph_extract_shapes_custom(g, opts) ==
    LET parts == SlicedParts(g.fill, g.fill, g.cuts)
        Shapes(k) == ExtractRegion(parts[k], opts)
        SlicedFrom[k \in 1..(Len(parts) + 1)] ==
            IF k > Len(parts) THEN << >> ELSE Shapes(k) \o SlicedFrom[k + 1]
    IN  SlicedFrom[1]

\* The shapes an entry point computed, converted for Python, with the engine
\* functions invoked on the way.
ReturnShapes(result) ==
    [ret |-> shapes_to_python(result.val), engine |-> result.engine]

\* A mutation of perform_stroke: the check for no paths left out.
perform_stroke_unguarded(paths, py_style, closed, py_options) ==
    LET rust_style == PyStrokeStyle_to_rust_style(py_style)
    IN  IF py_options # NoneValue
        THEN [val |-> Paths_stroke_custom(paths, rust_style, closed,
                                          build_overlay_options(py_options)),
              engine |-> <<"stroke_custom">>]
        ELSE [val |-> Paths_stroke(paths, rust_style, closed),
              engine |-> <<"stroke">>]

\* perform_stroke; `engine` lists the engine functions it invoked.
perform_stroke(paths, py_style, closed, py_options) ==
    IF paths = << >> THEN [val |-> << >>, engine |-> << >>]
    ELSE LET rust_style == PyStrokeStyle_to_rust_style(py_style)
         IN  IF py_options # NoneValue
             THEN [val |-> Paths_stroke_custom(
                               paths, rust_style, closed,
                               build_overlay_options(py_options)),
                   engine |-> <<"stroke_custom">>]
             ELSE [val |-> Paths_stroke(paths, rust_style, closed),
                   engine |-> <<"stroke">>]

\* stroke(paths, style, is_closed=..., options=...)
stroke(py_paths, py_style, closed, py_options) ==
    LET rust_paths == extract_paths(py_paths)
    IN  IF ~rust_paths.ok THEN [ret |-> rust_paths, engine |-> << >>]
        ELSE ReturnShapes(perform_stroke(rust_paths.val, py_style, closed,
                                         py_options))

\* perform_outline; `engine` lists the engine functions it invoked.
perform_outline(shapes, py_style, py_options) ==
    IF shapes = << >> THEN [val |-> << >>, engine |-> << >>]
    ELSE LET rust_style == PyOutlineStyle_to_rust_style(py_style)
         IN  IF py_options # NoneValue
             THEN [val |-> Shapes_outline_custom(
                               shapes, rust_style,
                               build_overlay_options(py_options)),
                   engine |-> <<"outline_custom">>]
             ELSE [val |-> Shapes_outline(shapes, rust_style),
                   engine |-> <<"outline">>]

\* outline(shapes, style, options=...)
outline(py_shapes, py_style, py_options) ==
    LET rust_shapes == extract_shapes(py_shapes)
    IN  IF ~rust_shapes.ok THEN [ret |-> rust_shapes, engine |-> << >>]
        ELSE ReturnShapes(perform_outline(rust_shapes.val, py_style,
                                          py_options))

\* perform_slice; `engine` lists the engine functions it invoked.
perform_slice(shapes, lines, rule, py_options, py_solver) ==
    LET options_ref == IF py_options = NoneValue THEN PyOverlayOptions_default
                       ELSE py_options
        rust_options == build_overlay_options(options_ref)
        slv == build_solver(py_solver)
        view == FloatStringOverlay_build_graph_view_with_solver(
                    shapes, lines, rule, slv)
    IN  IF view # NoneValue
        THEN [val |-> StringGraph_extract_shapes_custom(view, rust_options),
              engine |-> <<"build_graph_view_with_solver",
                           "extract_shapes_custom">>]
        ELSE [val |-> << >>, engine |-> <<"build_graph_view_with_solver">>]

\* slice_by(shapes, polylines, fill_rule, options=..., solver=...)
slice_by(py_shapes, py_polylines, py_fill_rule, py_options, py_solver) ==
    LET rust_shapes == extract_shapes(py_shapes)
        rust_polylines == extract_paths(py_polylines)
    IN  IF ~rust_shapes.ok THEN [ret |-> rust_shapes, engine |-> << >>]
        ELSE IF ~rust_polylines.ok
        THEN [ret |-> rust_polylines, engine |-> << >>]
        ELSE ReturnShapes(perform_slice(rust_shapes.val, rust_polylines.val,
                                        FillRuleFromPy(py_fill_rule),
                                        py_options, py_solver))

(***************************************************************************)
(* The entry points that return shapes: the arguments are fixed, then one  *)
(* of overlay, slice_by, stroke, outline or the graph's methods is called  *)
(* with them.                                                              *)
(***************************************************************************)
MaxHalfWidth == 1  \* widths are -2, 0, .., 2 * MaxHalfWidth; offsets -1..MaxHalfWidth

MeshPathInputs ==
    {PyPaths(<< >>),
     PyPaths(<< << <<1, 2>>, <<3, 2>> >> >>),
     PyPaths(<< << <<0, 2>>, <<GridMax, 2>> >> >>)}

MeshShapeInputs ==
    {PyShapes(<< >>), PyShapes(Squares(1, FALSE, 1)),
     PyShapes(Squares(1, TRUE, 1))}

StrokeStyleInputs ==
    {PyStrokeStyle_new(2 * k, c, c, 0, NoneValue, NoneValue, NoneValue,
                       NoneValue) :
        k \in (-1)..MaxHalfWidth, c \in {0, 2}}

OutlineStyleInputs ==
    {PyOutlineStyle_new(1, NoneValue, NoneValue, 0, NoneValue)} \cup
    {PyOutlineStyle_new(1, Some(o), Some(i), 0, NoneValue) :
        o \in (-1)..MaxHalfWidth, i \in (-1)..MaxHalfWidth}

\* The record of a finished call of entry point fn on `input`.
Returned(fn, input, r) ==
    [fn |-> fn, rule |-> 0, input |-> input, ret |-> r.ret,
     engine |-> r.engine]

\* No session argument is set but `options`.
MeshIdle ==
    /\ IdleEngine
    /\ clip = NoneValue
    /\ options \in OptionInputs
    /\ solver = NoneValue
    /\ clip_rule = NoneValue
    /\ call = NoneValue
    /\ IdleGraph
    /\ IdleTypes
    /\ candidates = {}

\* The arguments of stroke.
InitStroke ==
    /\ MeshIdle
    /\ polylines \in MeshPathInputs
    /\ style \in StrokeStyleInputs
    /\ is_closed \in BOOLEAN
    /\ subject = NoneValue
    /\ fill_rule = 0

\* The arguments of outline: `subject` holds `shapes`.
InitOutline ==
    /\ MeshIdle
    /\ subject \in MeshShapeInputs
    /\ style \in OutlineStyleInputs
    /\ polylines = NoneValue
    /\ is_closed = FALSE
    /\ fill_rule = 0

\* The arguments of slice_by: `subject` holds `shapes`.
InitSlice ==
    /\ MeshIdle
    /\ subject \in MeshShapeInputs
    /\ polylines \in MeshPathInputs
    /\ fill_rule \in PyFillRules
    /\ style = NoneValue
    /\ is_closed = FALSE

InitMesh == InitStroke \/ InitOutline \/ InitSlice

\* stroke(polylines, style, is_closed=is_closed, options=options); the style
\* is a StrokeStyle.
CallStroke ==
    /\ call = NoneValue
    /\ polylines # NoneValue
    /\ style # NoneValue
    /\ "width" \in DOMAIN style
    /\ \E r \in {stroke(polylines, style, is_closed, options)} :
           call' = Returned("stroke", polylines, r)
    /\ UNCHANGED <<subject, clip, fill_rule, options, solver, candidates>>
    /\ UNCHANGED auxVars
    /\ UNCHANGED graphVars
    /\ UNCHANGED typeVars

\* outline(subject, style, options=options); the style is an OutlineStyle.
CallOutline ==
    /\ call = NoneValue
    /\ style # NoneValue
    /\ "outer_offset" \in DOMAIN style
    /\ \E r \in {outline(subject, style, options)} :
           call' = Returned("outline", subject, r)
    /\ UNCHANGED <<subject, clip, fill_rule, options, solver, candidates>>
    /\ UNCHANGED auxVars
    /\ UNCHANGED graphVars
    /\ UNCHANGED typeVars

\* slice_by(subject, polylines, fill_rule, options=options, solver=solver)
CallSliceBy ==
    /\ call = NoneValue
    /\ polylines # NoneValue
    /\ subject # NoneValue
    /\ style = NoneValue
    /\ \E r \in {slice_by(subject, polylines, fill_rule, options, solver)} :
           call' = Returned("slice_by", subject, r)
    /\ UNCHANGED <<subject, clip, fill_rule, options, solver, candidates>>
    /\ UNCHANGED auxVars
    /\ UNCHANGED graphVars
    /\ UNCHANGED typeVars

NextMesh == CallStroke \/ CallOutline \/ CallSliceBy

EntryOperandInputs == {PyShapes(<< >>), PyShapes(Squares(0, FALSE, 1))}

\* The operands of overlay and FloatOverlayGraph.
InitSession ==
    /\ IdleAux
    /\ subject \in EntryOperandInputs
    /\ clip \in EntryOperandInputs
    /\ fill_rule \in PyFillRules
    /\ options \in OptionInputs
    /\ solver = NoneValue
    /\ call = NoneValue
    /\ IdleGraph
    /\ IdleTypes
    /\ candidates = {}

InitEntry == InitSession \/ InitMesh

\* overlay and the graph take the operands of a session, and a session goes
\* either through overlay or through a graph; slice_by, stroke and outline
\* take their own arguments.
InSession == clip # NoneValue /\ graph = NoneValue

InGraph == clip # NoneValue /\ (call = NoneValue \/ graph # NoneValue)

NextEntry ==
    \/ \E r \in PyOverlayRules : InSession /\ CallOverlay(r)
    \/ InGraph /\ NewGraph
    \/ \E r \in PyOverlayRules : InGraph /\ GraphExtract(r)
    \/ NextMesh

SpecEntry == InitEntry /\ [][NextEntry]_vars

\* The empty shape list as the binding returns it.
EmptyReturned == call.ret = Ok(PyList(<< >>))

\* The engine builds no graph for the operands of the session.
NoOverlayGraph ==
    /\ extract_shapes(subject).ok
    /\ extract_shapes(clip).ok
    /\ FloatOverlay_build_graph_view(
           create_float_overlay(extract_shapes(subject).val,
                                extract_shapes(clip).val,
                                OverlayOptions_default, Solver_default),
           FillRuleFromPy(fill_rule)) = NoneValue

NoStringGraph ==
    /\ extract_shapes(subject).ok
    /\ extract_paths(polylines).ok
    /\ FloatStringOverlay_build_graph_view_with_solver(
           extract_shapes(subject).val, extract_paths(polylines).val,
           FillRuleFromPy(fill_rule), Solver_default) = NoneValue

\* C13: stroke of no paths and outline of no shapes return the empty shape
\* list without invoking the engine; overlay, extract_shapes and slice_by
\* return the empty shape list when the engine builds no graph.  None of
\* them returns an error.
C13_EmptyInputNoError ==
    call # NoneValue =>
        /\ (call.fn = "stroke" /\ polylines = PyPaths(<< >>))
               => EmptyReturned /\ call.engine = << >>
        /\ (call.fn = "outline" /\ subject = PyShapes(<< >>))
               => EmptyReturned /\ call.engine = << >>
        /\ (call.fn \in {"overlay", "extract_shapes"} /\ NoOverlayGraph)
               => EmptyReturned
        /\ (call.fn = "slice_by" /\ NoStringGraph)
               => EmptyReturned

\* stroke has returned for an empty path collection and a positive width.
C13_Witness ==
    /\ call # NoneValue
    /\ call.fn = "stroke"
    /\ polylines = PyPaths(<< >>)
    /\ style.width > 0
    /\ call.ret.ok

\* C14: a constructed StrokeStyle has a width of at least 0 and a constructed
\* OutlineStyle has outer and inner offsets of at least 0, both in the record
\* Python reads and in the style to_rust_style hands to the engine.
C14_WidthsAndOffsetsClamped ==
    style # NoneValue =>
        IF "width" \in DOMAIN style
        THEN /\ style.width >= 0
             /\ PyStrokeStyle_to_rust_style(style).width >= 0
        ELSE /\ style.outer_offset >= 0
             /\ style.inner_offset >= 0
             /\ PyOutlineStyle_to_rust_style(style).outer_offset >= 0
             /\ PyOutlineStyle_to_rust_style(style).inner_offset >= 0

(***************************************************************************)
(* Sessions whose subject holds a degenerate contour.                      *)
(***************************************************************************)
\* A contour without its consecutive duplicate points.
RECURSIVE RemoveConsecutiveDuplicates(_)
RemoveConsecutiveDuplicates(contour) ==
    IF Len(contour) < 2 THEN contour
    ELSE LET rest == RemoveConsecutiveDuplicates(Tail(contour))
         IN  IF contour[1] = rest[1] THEN rest ELSE <<contour[1]>> \o rest

\* Fewer than 3 points are left of the contour.
IsDegenerate(contour) == Len(RemoveConsecutiveDuplicates(contour)) < 3

HasDegenerateContour(shapes) ==
    \E s \in 1..Len(shapes) : \E c \in 1..Len(shapes[s]) :
        IsDegenerate(shapes[s][c])

\* Shapes with a contour of two points, of two points written twice, of one
\* point and of no point, a square with a two-point contour beside it, and
\* the square alone.
DegenerateInputs ==
    {PyShapes(<< << << <<0, 0>>, <<0, 2>> >> >> >>),
     PyShapes(<< << << <<0, 0>>, <<0, 0>>, <<0, 2>>, <<0, 2>> >> >> >>),
     PyShapes(<< << << <<1, 1>> >> >> >>),
     PyShapes(<< << << >> >> >>),
     PyShapes(<< <<Square(0), << <<0, 0>>, <<0, 2>> >> >> >>),
     PyShapes(Squares(0, FALSE, 1))}

InitDegenerate ==
    /\ IdleAux
    /\ subject \in DegenerateInputs
    /\ clip \in EntryOperandInputs
    /\ fill_rule \in PyFillRules
    /\ options \in OptionInputs
    /\ solver = NoneValue
    /\ call = NoneValue
    /\ IdleGraph
    /\ IdleTypes
    /\ candidates = {}

SpecDegenerate == InitDegenerate /\ [][Next]_vars

\* C15: overlay and simplify_shape fail with InvalidGeometry when the subject
\* holds a contour that has fewer than 3 points once its consecutive
\* duplicate points are removed.
C15_DegenerateRejected ==
    (/\ call # NoneValue
     /\ call.fn \in {"overlay", "simplify_shape"}
     /\ extract_shapes(subject).ok
     /\ HasDegenerateContour(extract_shapes(subject).val))
        => ~call.ret.ok /\ call.ret.err = "InvalidGeometry"

(***************************************************************************)
(* The diagnostic harness, src/bin/test_fuzzer_failure.rs: it reads one    *)
(* recorded failure and replays its subject and clip on the engine, one    *)
(* (OverlayRule, FillRule) combination after the other.  Where the engine  *)
(* panics and where it returns a contour that is too short are fixed with  *)
(* the recorded failure, as the engine's answer to that input.             *)
(***************************************************************************)
OVERLAY_RULES == <<"Union", "Intersect", "Difference", "Xor">>

FILL_RULES == <<"EvenOdd", "NonZero", "Positive", "Negative">>

\* FloatOverlay::with_subj_and_clip(subject, clip)
FloatOverlay_with_subj_and_clip(subj, clp) ==
    FloatOverlay_with_subj_and_clip_custom(subj, clp, OverlayOptions_default,
                                           Solver_default)

\* What the engine does with the recorded operands under one combination: a
\* panic, a result with a contour of two points, or the overlay.
EngineRun(failure, overlay_rule, rule) ==
    IF <<overlay_rule, rule>> \in failure.panics THEN [t |-> "panic"]
    ELSE IF <<overlay_rule, rule>> \in failure.faulty
    THEN [t |-> "returned",
          shapes |-> << << << <<0, 0>>, <<0, 2>> >> >> >>]
    ELSE [t |-> "returned",
          shapes |-> FloatOverlay_overlay(
                         FloatOverlay_with_subj_and_clip(failure.subject,
                                                         failure.clip),
                         overlay_rule, rule)]

\* A mutation of test_overlay: without catch_unwind the panic leaves it.
test_overlay_uncaught(failure, overlay_rule, rule) ==
    LET result == EngineRun(failure, overlay_rule, rule)
    IN  IF result.t = "panic" THEN [t |-> "unwinding"]
        ELSE Ok(result.shapes)

\* test_overlay: the panic caught by catch_unwind becomes Err("Panic: ..").
test_overlay(failure, overlay_rule, rule) ==
    LET result == EngineRun(failure, overlay_rule, rule)
    IN  IF result.t = "panic" THEN Err("Panic")
        ELSE Ok(result.shapes)

\* validate_result: the coordinates of the model are all finite.
validate_result(shapes) ==
    IF \E s \in 1..Len(shapes) : shapes[s] = << >>
    THEN Err("no contours")
    ELSE IF \E s \in 1..Len(shapes) : \E c \in 1..Len(shapes[s]) :
                Len(shapes[s][c]) < 3
    THEN Err("too few points")
    ELSE Ok(NoneValue)

\* calculate_area: the absolute areas of all contours of 3 points or more.
RECURSIVE CalculateAreaFrom(_, _)
CalculateAreaFrom(shapes, s) ==
    IF s > Len(shapes) THEN 0
    ELSE SumAreas(SelectSeq(shapes[s], LAMBDA c : Len(c) >= 3), 1)
             + CalculateAreaFrom(shapes, s + 1)

calculate_area(shapes) == CalculateAreaFrom(shapes, 1)

HarnessShapes == {<< >>, Squares(0, FALSE, 1), Squares(1, FALSE, 1)}

HarnessCombinations ==
    {<<OVERLAY_RULES[i], FILL_RULES[j]>> :
        i \in 1..Len(OVERLAY_RULES), j \in 1..Len(FILL_RULES)}

\* The files the harness may be given: none, one that cannot be read, one
\* that is no failure record, and the failure records.
HarnessFiles ==
    {[t |-> "no argument"], [t |-> "unreadable"], [t |-> "malformed"]} \cup
    {[t |-> "failure", subject |-> s, clip |-> c, panics |-> p, faulty |-> f] :
        s \in HarnessShapes \ {Squares(1, FALSE, 1)},
        c \in HarnessShapes \ {Squares(0, FALSE, 1)},
        p \in {{}} \cup {{x} : x \in HarnessCombinations},
        f \in {{}, {<<"Union", "EvenOdd">>}, {<<"Xor", "Negative">>}}}

\* No binding call is in progress.
IdleBinding ==
    /\ IdleSession
    /\ candidates = {}
    /\ IdleGraph
    /\ IdleTypes
    /\ IdleArgs

InitHarness ==
    /\ IdleBinding
    /\ pool = NoneValue
    /\ callers = NoneValue
    /\ extraction = NoneValue
    /\ refinement = NoneValue
    /\ \E file \in HarnessFiles :
           harness = [at |-> "start", file |-> file, i |-> 1, j |-> 1,
                      rust_successes |-> 0, rust_errors |-> << >>,
                      printed |-> << >>, exit |-> NoneValue]

\* main, lines 148-192: the argument is checked, the file read and parsed.
MainLoad ==
    /\ harness # NoneValue
    /\ harness.at = "start"
    /\ harness' = IF harness.file.t = "failure"
                  THEN [harness EXCEPT !.at = "testing"]
                  ELSE [harness EXCEPT !.at = "exited", !.exit = Some(1)]
    /\ UNCHANGED <<sessionVars, graphVars, typeVars, candidates, argVars>>
    /\ UNCHANGED <<pool, callers, extraction, refinement>>

\* A mutation of TestedCombination: a result that fails validation is
\* printed and not pushed to rust_errors.
TestedCombination_warn_not_pushed(h, outcome) ==
    LET test_name == <<OVERLAY_RULES[h.i], FILL_RULES[h.j]>>
        last == h.j = Len(FILL_RULES)
        advanced == [h EXCEPT !.i = IF last THEN h.i + 1 ELSE h.i,
                              !.j = IF last THEN 1 ELSE h.j + 1]
    IN  IF "ok" \notin DOMAIN outcome
        THEN [h EXCEPT !.at = "exited", !.exit = Some(101)]
        ELSE IF ~outcome.ok
        THEN [advanced EXCEPT
                 !.printed = Append(@, [name |-> test_name, status |-> "FAIL",
                                        error |-> outcome.err]),
                 !.rust_errors = Append(@, <<test_name, outcome.err>>)]
        ELSE IF ~validate_result(outcome.val).ok
        THEN [advanced EXCEPT
                 !.printed = Append(@, [name |-> test_name, status |-> "WARN",
                                        error |-> validate_result(outcome.val).err])]
        ELSE [advanced EXCEPT
                 !.printed = Append(@, [name |-> test_name, status |-> "OK",
                                        shapes |-> Len(outcome.val),
                                        area |-> calculate_area(outcome.val)]),
                 !.rust_successes = @ + 1]

\* The harness after the body of the two loops has run for one combination.
TestedCombination(h, outcome) ==
    LET test_name == <<OVERLAY_RULES[h.i], FILL_RULES[h.j]>>
        last == h.j = Len(FILL_RULES)
        advanced == [h EXCEPT !.i = IF last THEN h.i + 1 ELSE h.i,
                              !.j = IF last THEN 1 ELSE h.j + 1]
    IN  IF "ok" \notin DOMAIN outcome
        THEN [h EXCEPT !.at = "exited", !.exit = Some(101)]
        ELSE IF ~outcome.ok
        THEN [advanced EXCEPT
                 !.printed = Append(@, [name |-> test_name, status |-> "FAIL",
                                        error |-> outcome.err]),
                 !.rust_errors = Append(@, <<test_name, outcome.err>>)]
        ELSE IF ~validate_result(outcome.val).ok
        THEN [advanced EXCEPT
                 !.printed = Append(@, [name |-> test_name, status |-> "WARN",
                                        error |-> validate_result(outcome.val).err]),
                 !.rust_errors = Append(@, <<test_name,
                                             validate_result(outcome.val).err>>)]
        ELSE [advanced EXCEPT
                 !.printed = Append(@, [name |-> test_name, status |-> "OK",
                                        shapes |-> Len(outcome.val),
                                        area |-> calculate_area(outcome.val)]),
                 !.rust_successes = @ + 1]

\* main, lines 199-232: one pass of the inner loop.  A panic that leaves
\* test_overlay ends the process with Rust's exit code 101.
MainTestCombination ==
    /\ harness # NoneValue
    /\ harness.at = "testing"
    /\ harness.i <= Len(OVERLAY_RULES)
    /\ \E outcome \in {test_overlay(harness.file, OVERLAY_RULES[harness.i],
                                     FILL_RULES[harness.j])} :
           harness' = TestedCombination(harness, outcome)
    /\ UNCHANGED <<sessionVars, graphVars, typeVars, candidates, argVars>>
    /\ UNCHANGED <<pool, callers, extraction, refinement>>

\* main, lines 234-262: the summary and the exit code.
MainSummary ==
    /\ harness # NoneValue
    /\ harness.at = "testing"
    /\ harness.i > Len(OVERLAY_RULES)
    /\ harness' = [harness EXCEPT
                      !.at = "exited",
                      !.exit = IF harness.rust_errors = << >>
                               THEN Some(0) ELSE Some(1)]
    /\ UNCHANGED <<sessionVars, graphVars, typeVars, candidates, argVars>>
    /\ UNCHANGED <<pool, callers, extraction, refinement>>

NextHarness == MainLoad \/ MainTestCombination \/ MainSummary

SpecHarness == InitHarness /\ [][NextHarness]_vars

\* The harness has gone through its loops and printed its summary.
HarnessFinished ==
    /\ harness # NoneValue
    /\ harness.file.t = "failure"
    /\ harness.at = "exited"

\* How often the harness reported the combination.
TimesReported(combination) ==
    Cardinality({k \in 1..Len(harness.printed) :
                    /\ harness.printed[k].name = combination
                    /\ harness.printed[k].status \in {"OK", "WARN", "FAIL"}})

\* C16: when the harness has finished, each of the 7 OverlayRule values
\* paired with each of the 4 FillRule values has been run and reported
\* exactly once.
C16_EveryCombinationOnce ==
    HarnessFinished =>
        \A r \in PyOverlayRules : \A f \in PyFillRules :
            TimesReported(<<OverlayRuleFromPy(r), FillRuleFromPy(f)>>) = 1

\* C17: a panic of the engine during one combination does not end the
\* harness: the combination is reported as failed with the panic as its
\* error, and a finished harness has run every combination of its tables
\* exactly once.
C17_PanicEndsOnlyItsCombination ==
    (harness # NoneValue /\ harness.file.t = "failure") =>
        /\ harness.exit # Some(101)
        /\ \A k \in 1..Len(harness.printed) :
               harness.printed[k].name \in harness.file.panics =>
                   /\ harness.printed[k].status = "FAIL"
                   /\ harness.printed[k].error = "Panic"
        /\ HarnessFinished =>
               \A c \in HarnessCombinations : TimesReported(c) = 1

\* The harness has finished a record whose first combination panicked.
C17_Witness ==
    /\ HarnessFinished
    /\ harness.file.panics = {<<OVERLAY_RULES[1], FILL_RULES[1]>>}
    /\ harness.printed[1].status = "FAIL"
    /\ Len(harness.printed) = Len(OVERLAY_RULES) * Len(FILL_RULES)
    /\ harness.exit = Some(1)

(***************************************************************************)
(* The fill classifier under a Solver: with `multithreading` set, the      *)
(* shards of the input (the columns of the grid) go to the workers of a    *)
(* pool, each worker writes the shard's result to the shard's own buffer,  *)
(* and the buffers are merged when all are written; without it, one path   *)
(* classifies the shards in order.                                         *)
(***************************************************************************)
MaxWorkers == 2    \* shards in work at the same time

Shards == 1..GridMax

\* The filled cells of one shard: column k - 1 of the grid.
ClassifyShard(shapes, rule, k) ==
    {c \in Filled(shapes, rule) : c[1] = k - 1}

\* The single sequential path: the shards in order.
ClassifySequential(shapes, rule) ==
    [k \in Shards |-> ClassifyShard(shapes, rule, k)]

\* A mutation of the merge: the buffers taken in the order of completion.
MergePartials_by_completion(buffers, completed) ==
    [i \in Shards |-> buffers[completed[i]]]

\* The merge of the partial results, keyed by shard index.
MergePartials(buffers, completed) ==
    [i \in Shards |-> buffers[i]]

PoolShapes == {<< >>, Squares(0, FALSE, 1), Squares(1, TRUE, 2)}

PoolSolvers ==
    {NoneValue, PySolver_new(3, NoneValue, TRUE),
     PySolver_new(3, NoneValue, FALSE), PySolver_new(0, NoneValue, TRUE)}

\* An operation handed to the engine: `solver` is the caller's argument.
InitPool ==
    /\ subject = NoneValue
    /\ clip = NoneValue
    /\ fill_rule = 0
    /\ options = NoneValue
    /\ solver \in PoolSolvers
    /\ call = NoneValue
    /\ candidates = {}
    /\ IdleGraph
    /\ IdleTypes
    /\ IdleArgs
    /\ harness = NoneValue
    /\ callers = NoneValue
    /\ extraction = NoneValue
    /\ refinement = NoneValue
    /\ \E shapes \in PoolShapes, rule \in {"EvenOdd", "NonZero"} :
           pool = [input |-> shapes, rule |-> rule, at |-> "start",
                   taken |-> {}, written |-> {},
                   buffers |-> [k \in Shards |-> {}],
                   completed |-> << >>, merged |-> << >>]

\* Solver.multithreading is None: all work runs on one sequential path.
RunSequential ==
    /\ pool # NoneValue
    /\ pool.at = "start"
    /\ build_solver(solver).multithreading = NoneValue
    /\ pool' = [pool EXCEPT
                   !.at = "done",
                   !.merged = ClassifySequential(pool.input, pool.rule)]
    /\ UNCHANGED <<sessionVars, graphVars, typeVars, candidates, argVars>>
    /\ UNCHANGED <<harness, callers, extraction, refinement>>

\* Solver.multithreading is Some: the shards are dispatched to the pool.
Dispatch ==
    /\ pool # NoneValue
    /\ pool.at = "start"
    /\ build_solver(solver).multithreading # NoneValue
    /\ pool' = [pool EXCEPT !.at = "sharded"]
    /\ UNCHANGED <<sessionVars, graphVars, typeVars, candidates, argVars>>
    /\ UNCHANGED <<harness, callers, extraction, refinement>>

\* A free worker takes a shard no worker has taken.
WorkerTake(k) ==
    /\ pool # NoneValue
    /\ pool.at = "sharded"
    /\ k \notin pool.taken
    /\ Cardinality(pool.taken \ pool.written) < MaxWorkers
    /\ pool' = [pool EXCEPT !.taken = @ \cup {k}]
    /\ UNCHANGED <<sessionVars, graphVars, typeVars, candidates, argVars>>
    /\ UNCHANGED <<harness, callers, extraction, refinement>>

\* The worker of shard k writes the shard's buffer, once, and completes.
WorkerWrite(k) ==
    /\ pool # NoneValue
    /\ pool.at = "sharded"
    /\ k \in pool.taken \ pool.written
    /\ pool' = [pool EXCEPT
                   !.written = @ \cup {k},
                   !.buffers[k] = ClassifyShard(pool.input, pool.rule, k),
                   !.completed = Append(@, k)]
    /\ UNCHANGED <<sessionVars, graphVars, typeVars, candidates, argVars>>
    /\ UNCHANGED <<harness, callers, extraction, refinement>>

\* All workers have completed: the partial results are merged.
Merge ==
    /\ pool # NoneValue
    /\ pool.at = "sharded"
    /\ pool.written = Shards
    /\ pool' = [pool EXCEPT
                   !.at = "done",
                   !.merged = MergePartials(pool.buffers, pool.completed)]
    /\ UNCHANGED <<sessionVars, graphVars, typeVars, candidates, argVars>>
    /\ UNCHANGED <<harness, callers, extraction, refinement>>

NextPool ==
    \/ RunSequential
    \/ Dispatch
    \/ \E k \in Shards : WorkerTake(k)
    \/ \E k \in Shards : WorkerWrite(k)
    \/ Merge

SpecPool == InitPool /\ [][NextPool]_vars

\* C18: whatever the order in which the workers took and completed their
\* shards, the merged output is the output of the single sequential path
\* for the same input, and its cells are the filled cells of the input.
C18_MergedIndependentOfScheduling ==
    (pool # NoneValue /\ pool.at = "done") =>
        /\ pool.merged = ClassifySequential(pool.input, pool.rule)
        /\ UNION {pool.merged[k] : k \in Shards}
               = Filled(pool.input, pool.rule)

\* The pool has merged shards that completed out of index order, two of
\* them with different results.
C18_Witness ==
    /\ pool # NoneValue
    /\ pool.at = "done"
    /\ build_solver(solver).multithreading # NoneValue
    /\ \E i \in 1..(Len(pool.completed) - 1) :
           /\ pool.completed[i] > pool.completed[i + 1]
           /\ pool.buffers[pool.completed[i]]
                  # pool.buffers[pool.completed[i + 1]]

(***************************************************************************)
(* Callers of extract_shapes on one FloatOverlayGraph at the same time.    *)
(* A call goes through its statements one by one, and the statements of    *)
(* different calls interleave freely.  `callers.requested` holds the rule  *)
(* each caller passed, `callers.frames` the locals of the calls and        *)
(* `callers.returned` what each caller got back.                           *)
(***************************************************************************)
MaxCallers == 2    \* callers of extract_shapes on the one graph

Callers == 1..MaxCallers

\* Intersect, Union, Difference and Xor.
CallerRules == {2, 3, 4, 6}

\* A mutation of LocalSlot: every call keeps its locals in the same place.
LocalSlot_shared(c) == 1

\* Where call c keeps its locals: each call has a frame of its own.
LocalSlot(c) == c

NoFrame == [at |-> "none"]

InitCallers ==
    /\ subject = PyShapes(Squares(0, FALSE, 1))
    /\ clip \in {PyShapes(<< >>), PyShapes(Squares(1, FALSE, 1))}
    /\ fill_rule \in {0, 1}
    /\ options = NoneValue
    /\ solver = NoneValue
    /\ call = NoneValue
    /\ candidates = {}
    /\ graph = PyFloatOverlayGraph_new(subject, clip, fill_rule, options,
                                       solver).val
    /\ builds = 0
    /\ IdleTypes
    /\ IdleArgs
    /\ harness = NoneValue
    /\ pool = NoneValue
    /\ extraction = NoneValue
    /\ refinement = NoneValue
    /\ callers = [requested |-> [c \in Callers |-> NoneValue],
                  frames |-> [c \in Callers |-> NoFrame],
                  returned |-> [c \in Callers |-> NoneValue]]

\* Caller c calls graph.extract_shapes(r).
ExtractEnter(c, r) ==
    /\ callers # NoneValue
    /\ callers.requested[c] = NoneValue
    /\ callers' = [callers EXCEPT
                      !.requested[c] = Some(r),
                      !.frames[LocalSlot(c)] = [at |-> "entered", rule |-> r]]
    /\ UNCHANGED <<sessionVars, graphVars, typeVars, candidates, argVars>>
    /\ UNCHANGED <<harness, pool, extraction, refinement>>

\* Lines 209-213: the options, the solver and the FloatOverlay of the call,
\* made from the fields of the graph object.
ExtractCreate(c) ==
    /\ callers # NoneValue
    /\ callers.requested[c] # NoneValue
    /\ callers.returned[c] = NoneValue
    /\ callers.frames[LocalSlot(c)].at = "entered"
    /\ callers' = [callers EXCEPT
                      !.frames[LocalSlot(c)] =
                          [at |-> "created", rule |-> @.rule,
                           float_overlay |->
                               create_float_overlay(
                                   graph.subject, graph.clip,
                                   build_overlay_options(graph.options),
                                   build_solver(graph.solver))]]
    /\ UNCHANGED <<sessionVars, graphVars, typeVars, candidates, argVars>>
    /\ UNCHANGED <<harness, pool, extraction, refinement>>

\* Line 216: the graph view of the call.
ExtractBuild(c) ==
    /\ callers # NoneValue
    /\ callers.requested[c] # NoneValue
    /\ callers.returned[c] = NoneValue
    /\ callers.frames[LocalSlot(c)].at = "created"
    /\ callers' = [callers EXCEPT
                      !.frames[LocalSlot(c)] =
                          [at |-> "built", rule |-> @.rule,
                           view |-> FloatOverlay_build_graph_view(
                                        @.float_overlay, graph.fill_rule)]]
    /\ builds' = builds + 1
    /\ UNCHANGED <<sessionVars, graph, typeVars, candidates, argVars>>
    /\ UNCHANGED <<harness, pool, extraction, refinement>>

\* What a call returns from its locals, lines 216-224.
ExtractResult(frame) ==
    shapes_to_python(
        IF frame.view # NoneValue
        THEN Graph_extract_shapes(frame.view, OverlayRuleFromPy(frame.rule))
        ELSE << >>)

\* Lines 217-224: the shapes are extracted with a buffer of the call's own
\* and returned to the caller.
ExtractReturn(c) ==
    /\ callers # NoneValue
    /\ callers.requested[c] # NoneValue
    /\ callers.returned[c] = NoneValue
    /\ callers.frames[LocalSlot(c)].at = "built"
    /\ callers' = [callers EXCEPT
                      !.returned[c] =
                          ExtractResult(callers.frames[LocalSlot(c)])]
    /\ UNCHANGED <<sessionVars, graphVars, typeVars, candidates, argVars>>
    /\ UNCHANGED <<harness, pool, extraction, refinement>>

NextCallers ==
    \/ \E c \in Callers, r \in CallerRules : ExtractEnter(c, r)
    \/ \E c \in Callers : ExtractCreate(c)
    \/ \E c \in Callers : ExtractBuild(c)
    \/ \E c \in Callers : ExtractReturn(c)

SpecCallers == InitCallers /\ [][NextCallers]_vars

\* C19: whatever the other callers do in the meantime, a caller of
\* extract_shapes gets what the call returns when it runs alone on the graph
\* with the caller's rule, and the graph object stays as it was built.
C19_ConcurrentExtractionAlone ==
    callers # NoneValue =>
        /\ graph = PyFloatOverlayGraph_new(subject, clip, fill_rule, options,
                                           solver).val
        /\ \A c \in Callers :
               callers.returned[c] # NoneValue =>
                   callers.returned[c]
                       = PyFloatOverlayGraph_extract_shapes(
                             graph, callers.requested[c].v)

\* Two callers asked for rules with different results; the second entered
\* while the first was in its call, and both have returned.
C19_Witness ==
    /\ callers # NoneValue
    /\ callers.returned[1] # NoneValue
    /\ callers.returned[2] # NoneValue
    /\ callers.requested[1] # callers.requested[2]
    /\ callers.returned[1] # callers.returned[2]
    /\ callers.returned[1].ok
    /\ callers.returned[1].val # PyList(<< >>)

(***************************************************************************)
(* Rule extraction step by step: the retained edges are the directed       *)
(* boundary of the faces the rule keeps; a walk starts at the least        *)
(* unvisited edge, follows the leftmost turn edge by edge, marks every     *)
(* edge it takes, and yields a contour when it is back at its start.       *)
(***************************************************************************)
\* A mutation of Unvisited: the marks are not looked at.
Unvisited_ignoring_marks(edges, marks) == edges

\* The retained edges that are not marked visited.
Unvisited(edges, marks) == {e \in edges : marks[e] = 0}

\* A ring of cells around a hole.
RingRegion == {c \in Cells : c[1] <= 2 /\ c[2] <= 2} \ {<<1, 1>>}

\* Two cells that touch at one vertex.
DiagonalRegion == {<<0, 0>>, <<1, 1>>}

\* The faces kept of two squares under Intersect, Union, Difference and Xor,
\* the ring and the two cells.
ExtractionRegions ==
    {RingRegion, DiagonalRegion} \cup
    {GraphRegion(
         FloatOverlay_build_graph_view(
             FloatOverlay_with_subj_and_clip(Squares(p, FALSE, 1),
                                             Squares(o, FALSE, 1)),
             "NonZero"),
         OverlayRuleFromPy(r)) :
        p \in 0..MaxOff, o \in 0..MaxOff, r \in {2, 3, 4, 6}}

InitExtraction ==
    /\ IdleBinding
    /\ harness = NoneValue
    /\ pool = NoneValue
    /\ callers = NoneValue
    /\ refinement = NoneValue
    /\ \E region \in ExtractionRegions :
           extraction = [edges |-> BoundaryEdges(region),
                         marks |-> [e \in BoundaryEdges(region) |-> 0],
                         current |-> << >>, walks |-> << >>,
                         at |-> "walking"]

\* A walk starts at the least unvisited edge and marks it.
WalkStart ==
    /\ extraction # NoneValue
    /\ extraction.at = "walking"
    /\ extraction.current = << >>
    /\ Unvisited(extraction.edges, extraction.marks) # {}
    /\ LET left == Unvisited(extraction.edges, extraction.marks)
           start == CHOOSE e \in left : \A f \in left : f = e \/ EdgeLess(e, f)
       IN  extraction' = [extraction EXCEPT !.current = <<start>>,
                                            !.marks[start] = @ + 1]
    /\ UNCHANGED <<sessionVars, graphVars, typeVars, candidates, argVars>>
    /\ UNCHANGED <<harness, pool, callers, refinement>>

\* The walk takes the next edge, which is not its start, and marks it.
WalkStep ==
    /\ extraction # NoneValue
    /\ extraction.at = "walking"
    /\ extraction.current # << >>
    /\ LET next == NextEdge(extraction.edges,
                            extraction.current[Len(extraction.current)])
       IN  /\ next # extraction.current[1]
           /\ extraction' = [extraction EXCEPT !.current = Append(@, next),
                                                !.marks[next] = @ + 1]
    /\ UNCHANGED <<sessionVars, graphVars, typeVars, candidates, argVars>>
    /\ UNCHANGED <<harness, pool, callers, refinement>>

\* The next edge is the start of the walk: the walk yields a contour.
WalkClose ==
    /\ extraction # NoneValue
    /\ extraction.at = "walking"
    /\ extraction.current # << >>
    /\ NextEdge(extraction.edges, extraction.current[Len(extraction.current)])
           = extraction.current[1]
    /\ extraction' = [extraction EXCEPT !.walks = Append(@, extraction.current),
                                        !.current = << >>]
    /\ UNCHANGED <<sessionVars, graphVars, typeVars, candidates, argVars>>
    /\ UNCHANGED <<harness, pool, callers, refinement>>

\* No edge is left unvisited: extraction finishes.
ExtractionFinish ==
    /\ extraction # NoneValue
    /\ extraction.at = "walking"
    /\ extraction.current = << >>
    /\ Unvisited(extraction.edges, extraction.marks) = {}
    /\ extraction' = [extraction EXCEPT !.at = "finished"]
    /\ UNCHANGED <<sessionVars, graphVars, typeVars, candidates, argVars>>
    /\ UNCHANGED <<harness, pool, callers, refinement>>

NextExtraction == WalkStart \/ WalkStep \/ WalkClose \/ ExtractionFinish

SpecExtraction == InitExtraction /\ [][NextExtraction]_vars

\* How often the walks made so far, the one in progress included, hold e.
TimesWalked(e) ==
    LET all == Append(extraction.walks, extraction.current)
    IN  Cardinality({<<w, k>> \in (1..Len(all)) \X (1..Cardinality(extraction.edges)) :
                        k <= Len(all[w]) /\ all[w][k] = e})

\* The walk is closed: every edge starts where the one before it ends, and
\* the last one ends at the start vertex.
ClosedWalk(w) ==
    /\ w # << >>
    /\ \A k \in 1..(Len(w) - 1) : w[k][2] = w[k + 1][1]
    /\ w[Len(w)][2] = w[1][1]

\* C20: during extraction no retained edge is marked visited more than once,
\* an edge is marked exactly when a walk holds it, and no edge is in two
\* walks or twice in one; every walk that yielded a contour is back at its
\* start vertex; when extraction finishes every retained edge is marked
\* once and lies in exactly one walk, and the walks are those the engine
\* turns into contours.
C20_EveryEdgeWalkedOnce ==
    extraction # NoneValue =>
        /\ \A e \in extraction.edges :
               /\ extraction.marks[e] <= 1
               /\ TimesWalked(e) = extraction.marks[e]
        /\ \A w \in 1..Len(extraction.walks) :
               ClosedWalk(extraction.walks[w])
        /\ extraction.at = "finished" =>
               /\ \A e \in extraction.edges :
                      extraction.marks[e] = 1 /\ TimesWalked(e) = 1
               /\ extraction.current = << >>
               /\ extraction.walks
                      = Walks(extraction.edges, extraction.edges)

\* Extraction has finished with more than one walk, one of them around a
\* hole.
C20_Witness ==
    /\ extraction # NoneValue
    /\ extraction.at = "finished"
    /\ Len(extraction.walks) > 1
    /\ \E w \in 1..Len(extraction.walks) :
           SignedArea2(WalkVertices(extraction.walks[w])) < 0

(***************************************************************************)
(* The shapes an entry point hands back, as validate_result looks at them. *)
(***************************************************************************)
\* C21: every shape an overlay or a simplification returns has at least one
\* contour and every contour of it has at least 3 points, so that
\* validate_result accepts the result.
C21_OutputContoursWellFormed ==
    (call # NoneValue /\ call.ret.ok) =>
        /\ \A s \in 1..Len(ShapesOf(call.ret)) :
               /\ Len(ShapesOf(call.ret)[s]) >= 1
               /\ \A c \in 1..Len(ShapesOf(call.ret)[s]) :
                      Len(ShapesOf(call.ret)[s][c]) >= 3
        /\ validate_result(ShapesOf(call.ret)).ok

\* overlay has returned a shape whose contour has more than 4 points.
C21_Witness ==
    /\ call # NoneValue
    /\ call.fn = "overlay"
    /\ call.ret.ok
    /\ \E s \in 1..Len(ShapesOf(call.ret)) :
           Len(ShapesOf(call.ret)[s][1]) > 4

(***************************************************************************)
(* The records of the binding after construction.  A caller holds an       *)
(* OverlayOptions, a Solver (with its Precision), a ClipRule and a style,  *)
(* passes them to the entry points, builds a graph, extracts from it, and  *)
(* tries to assign to their attributes.                                    *)
(***************************************************************************)
\* A mutation of PyClassSetters: `#[pyo3(get, set)]` on one field of a class.
PyClassSetters_get_set(class) ==
    CASE class = "OverlayOptions" -> {"preserve_input_collinear"}
      [] class = "Solver" -> {"multithreading"}
      [] class = "ClipRule" -> {"invert"}
      [] class = "StrokeStyle" -> {"join"}
      [] class = "OutlineStyle" -> {"join"}
      [] class = "FloatOverlayGraph" -> {"fill_rule"}

\* The fields of a class Python may assign to.  The records are
\* `#[pyclass(frozen)]` and their fields `#[pyo3(get)]`; the fields of
\* FloatOverlayGraph carry no attribute at all.
PyClassSetters(class) ==
    CASE class = "OverlayOptions" -> {}
      [] class = "Solver" -> {}
      [] class = "ClipRule" -> {}
      [] class = "StrokeStyle" -> {}
      [] class = "OutlineStyle" -> {}
      [] class = "FloatOverlayGraph" -> {}

\* `object.field = value` from Python on an object of the class.
SetAttr(object, class, field, value) ==
    IF field \in PyClassSetters(class)
    THEN Ok([object EXCEPT ![field] = value])
    ELSE Err("AttributeError")

StyleClass(s) == IF "width" \in DOMAIN s THEN "StrokeStyle" ELSE "OutlineStyle"

\* The assignments the caller tries.
AttributeWrites ==
    {<<"options", "preserve_input_collinear", b>> : b \in BOOLEAN} \cup
    {<<"options", "preserve_output_collinear", b>> : b \in BOOLEAN} \cup
    {<<"solver", "multithreading", b>> : b \in BOOLEAN} \cup
    {<<"clip_rule", f, b>> : f \in {"invert", "boundary_included"},
                             b \in BOOLEAN} \cup
    {<<"style", "join", j>> : j \in PyLineJoins} \cup
    {<<"graph", "fill_rule", f>> : f \in {"EvenOdd", "NonZero"}}

InitValues ==
    /\ IdleEngine
    /\ IdleGraph
    /\ IdleTypes
    /\ candidates = {}
    /\ call = NoneValue
    /\ subject = PyShapes(Squares(0, FALSE, 1))
    /\ clip \in {PyShapes(<< >>), PyShapes(Squares(1, FALSE, 1))}
    /\ fill_rule \in {0, 1}
    /\ options \in {PyOverlayOptions_new(FALSE, 1, FALSE, Num(0)),
                    PyOverlayOptions_new(TRUE, 0, TRUE, Num(1))}
    /\ solver \in {PySolver_new(3, NoneValue, TRUE),
                   PySolver_new(0, [start |-> 1, progression |-> 2], FALSE)}
    /\ clip_rule \in ClipRuleInputs
    /\ style \in {PyStrokeStyle_new(2, 0, 0, 0, NoneValue, NoneValue,
                                    NoneValue, NoneValue),
                  PyOutlineStyle_new(1, NoneValue, NoneValue, 0, NoneValue)}
    /\ polylines = PyPaths(<< << <<-1, 1>>, <<3, 1>> >> >>)
    /\ is_closed = FALSE

\* The caller assigns to an attribute of one of the objects it holds.
SetAttribute(target, field, value) ==
    /\ target = "graph" => graph # NoneValue
    /\ LET made == CASE target = "options" ->
                            SetAttr(options, "OverlayOptions", field, value)
                     [] target = "solver" ->
                            SetAttr(solver, "Solver", field, value)
                     [] target = "clip_rule" ->
                            SetAttr(clip_rule, "ClipRule", field, value)
                     [] target = "style" ->
                            SetAttr(style, StyleClass(style), field, value)
                     [] target = "graph" ->
                            SetAttr(graph, "FloatOverlayGraph", field, value)
           Kept(name, old) == IF target = name /\ made.ok THEN made.val ELSE old
       IN  /\ options' = Kept("options", options)
           /\ solver' = Kept("solver", solver)
           /\ clip_rule' = Kept("clip_rule", clip_rule)
           /\ style' = Kept("style", style)
           /\ graph' = Kept("graph", graph)
           /\ call' = [fn |-> "setattr", rule |-> 0, input |-> target,
                       ret |-> IF made.ok THEN Ok(NoneValue) ELSE made]
    /\ UNCHANGED <<subject, clip, fill_rule, builds, candidates>>
    /\ UNCHANGED <<polylines, is_closed>>
    /\ UNCHANGED engineVars
    /\ UNCHANGED typeVars

NextValues ==
    \/ \E w \in AttributeWrites : SetAttribute(w[1], w[2], w[3])
    \/ NewGraph
    \/ \E r \in PyOverlayRules : GraphExtract(r)
    \/ CallClipBy
    \/ CallStroke
    \/ CallOutline

SpecValues == InitValues /\ [][NextValues]_vars

\* C22: no step changes a field of the OverlayOptions, the Solver (and the
\* Precision it holds), the ClipRule or the style the caller constructed,
\* and once the graph is built no step, extract_shapes included, changes its
\* stored subject, clip, fill_rule, options or solver.
C22_NoMutationAfterConstruction ==
    [][/\ options' = options
       /\ solver' = solver
       /\ clip_rule' = clip_rule
       /\ style' = style
       /\ graph # NoneValue => graph' = graph]_vars

\* After an extraction from the graph the caller tried to assign to an
\* attribute and got an AttributeError.
C22_Witness ==
    /\ graph # NoneValue
    /\ builds > 0
    /\ call # NoneValue
    /\ call.fn = "setattr"
    /\ call.input = "graph"
    /\ ~call.ret.ok

(***************************************************************************)
(* The precision refinement loop of the arrangement builder.  The builder  *)
(* snaps at radius 2^start; when ambiguous topology is left it advances    *)
(* the radius by `progression` bits and snaps again, until nothing is      *)
(* ambiguous or the attempts are used up.  `refinement.need` is the        *)
(* engine's answer for the input: the exponent from which snapping leaves  *)
(* nothing ambiguous, or NoneValue when no radius does.                    *)
(***************************************************************************)
MaxStart == 2          \* Precision.start of a caller's own Precision
MaxProgression == 3    \* Precision.progression of a caller's own Precision
MaxAttempts == 3       \* attempts of the refinement loop
MaxNeed == 4           \* exponent at which an input stops being ambiguous

PrecisionPresets ==
    {"ABSOLUTE", "HIGH", "MEDIUM_HIGH", "MEDIUM", "MEDIUM_LOW", "LOW"}

\* The class attributes of Precision.
PyPrecisionPreset(name) ==
    CASE name = "ABSOLUTE" -> [start |-> 0, progression |-> 0]
      [] name = "HIGH" -> PyPrecision_HIGH
      [] name = "MEDIUM_HIGH" -> [start |-> 1, progression |-> 1]
      [] name = "MEDIUM" -> [start |-> 0, progression |-> 2]
      [] name = "MEDIUM_LOW" -> [start |-> 2, progression |-> 2]
      [] name = "LOW" -> [start |-> 2, progression |-> 3]

\* What the doc comment of each preset says: the first radius and the
\* factor from one loop to the next.
PresetDocumentation(name) ==
    CASE name = "ABSOLUTE" -> [first |-> 1, factor |-> 1]
      [] name = "HIGH" -> [first |-> 1, factor |-> 2]
      [] name = "MEDIUM_HIGH" -> [first |-> 2, factor |-> 2]
      [] name = "MEDIUM" -> [first |-> 1, factor |-> 4]
      [] name = "MEDIUM_LOW" -> [first |-> 4, factor |-> 4]
      [] name = "LOW" -> [first |-> 4, factor |-> 8]

\* PyPrecision::new
PyPrecision_new(start, progression) ==
    [start |-> start, progression |-> progression]

PrecisionInputs ==
    {PyPrecisionPreset(name) : name \in PrecisionPresets} \cup
    {PyPrecision_new(s, p) : s \in 0..MaxStart, p \in 0..MaxProgression}

\* A mutation of AttemptOutcome: used-up attempts end in an error.
AttemptOutcome_failing(resolved, exhausted) ==
    IF resolved THEN [t |-> "arrangement", best_effort |-> FALSE]
    ELSE IF exhausted THEN [t |-> "error", e |-> "NumericInstability"]
    ELSE [t |-> "refine"]

\* What an attempt ends in: the arrangement when nothing is ambiguous, the
\* best achievable one when the attempts are used up, another pass otherwise.
AttemptOutcome(resolved, exhausted) ==
    IF resolved THEN [t |-> "arrangement", best_effort |-> FALSE]
    ELSE IF exhausted THEN [t |-> "arrangement", best_effort |-> TRUE]
    ELSE [t |-> "refine"]

\* An operation handed to the engine with the caller's solver.
InitRefine ==
    /\ subject = NoneValue
    /\ clip = NoneValue
    /\ fill_rule = 0
    /\ options = NoneValue
    /\ solver \in {NoneValue} \cup
                  {PySolver_new(3, p, TRUE) : p \in PrecisionInputs}
    /\ call = NoneValue
    /\ candidates = {}
    /\ IdleGraph
    /\ IdleTypes
    /\ IdleArgs
    /\ harness = NoneValue
    /\ pool = NoneValue
    /\ callers = NoneValue
    /\ extraction = NoneValue
    /\ \E need \in {NoneValue} \cup {Some(e) : e \in 0..MaxNeed} :
           refinement = [precision |-> build_solver(solver).precision,
                         need |-> need, k |-> 0,
                         radius |-> 2 ^ build_solver(solver).precision.start,
                         at |-> "snapping", attempts |-> << >>,
                         result |-> NoneValue]

\* One attempt: the builder snaps at the active radius.
SnapAttempt ==
    /\ refinement # NoneValue
    /\ refinement.at = "snapping"
    /\ LET resolved == /\ refinement.need # NoneValue
                       /\ refinement.radius >= 2 ^ refinement.need.v
           exhausted == refinement.k + 1 >= MaxAttempts
           outcome == AttemptOutcome(resolved, exhausted)
       IN  refinement' =
               [refinement EXCEPT
                   !.attempts = Append(@, [k |-> refinement.k,
                                           radius |-> refinement.radius]),
                   !.at = IF outcome.t = "refine" THEN "refining" ELSE "done",
                   !.result = IF outcome.t = "refine" THEN NoneValue
                              ELSE outcome]
    /\ UNCHANGED <<sessionVars, graphVars, typeVars, candidates, argVars>>
    /\ UNCHANGED <<harness, pool, callers, extraction>>

\* A refinement pass is required: the radius advances by `progression` bits.
RefineAdvance ==
    /\ refinement # NoneValue
    /\ refinement.at = "refining"
    /\ refinement' =
           [refinement EXCEPT
               !.k = @ + 1,
               !.radius = @ * 2 ^ refinement.precision.progression,
               !.at = "snapping"]
    /\ UNCHANGED <<sessionVars, graphVars, typeVars, candidates, argVars>>
    /\ UNCHANGED <<harness, pool, callers, extraction>>

NextRefine == SnapAttempt \/ RefineAdvance

SpecRefine == InitRefine /\ [][NextRefine]_vars

\* The loop runs whenever it can take a step.
SpecRefineFair == SpecRefine /\ WF_vars(NextRefine)

\* The Precision the caller gave, as Python reads it.
CallerPrecision ==
    IF solver = NoneValue THEN PyPrecision_HIGH ELSE solver.precision

\* C23: the radius of attempt k is 2^(start + k * progression) of the
\* caller's Precision; the radii never decrease and are all the same when
\* progression is 0; under a named preset the first radius and the factor
\* from one attempt to the next are those of the preset's documentation.
C23_SnappingRadii ==
    refinement # NoneValue =>
        /\ \A i \in 1..Len(refinement.attempts) :
               /\ refinement.attempts[i].k = i - 1
               /\ refinement.attempts[i].radius
                      = 2 ^ (CallerPrecision.start
                             + (i - 1) * CallerPrecision.progression)
               /\ i > 1 => refinement.attempts[i].radius
                               >= refinement.attempts[i - 1].radius
               /\ CallerPrecision.progression = 0
                      => refinement.attempts[i].radius
                             = refinement.attempts[1].radius
        /\ \A name \in PrecisionPresets :
               CallerPrecision = PyPrecisionPreset(name) =>
                   \A i \in 1..Len(refinement.attempts) :
                       refinement.attempts[i].radius
                           = PresetDocumentation(name).first
                             * PresetDocumentation(name).factor ^ (i - 1)

\* Under Precision.LOW the loop has made three attempts.
C23_Witness ==
    /\ refinement # NoneValue
    /\ solver # NoneValue
    /\ solver.precision = PyPrecisionPreset("LOW")
    /\ Len(refinement.attempts) >= 3
    /\ refinement.attempts[3].radius = 256

\* The attempts made so far are in the order of their index, each one once,
\* and a finished loop holds an arrangement, the best achievable one when
\* the input was still ambiguous at the last radius.
RefinementSound ==
    refinement # NoneValue =>
        /\ \A i \in 1..Len(refinement.attempts) :
               \A j \in 1..Len(refinement.attempts) :
                   i < j => /\ refinement.attempts[i].k < refinement.attempts[j].k
                            /\ refinement.attempts[i].radius
                                   <= refinement.attempts[j].radius
        /\ refinement.at = "done" <=> refinement.result # NoneValue
        /\ refinement.result # NoneValue =>
               /\ refinement.result.t = "arrangement"
               /\ refinement.result.best_effort
                      = ~(/\ refinement.need # NoneValue
                          /\ refinement.radius >= 2 ^ refinement.need.v)

\* C24: the refinement loop always ends, with an arrangement and never with
\* an error; its attempts go on with a radius that never decreases, none of
\* them is made twice, and when the attempts are used up with ambiguous
\* topology left the result is the best achievable arrangement.
C24_RefinementTerminates ==
    /\ []RefinementSound
    /\ <>(refinement # NoneValue /\ refinement.at = "done")

\* The loop has used up its attempts on an input that no radius settles.
C24_Witness ==
    /\ refinement # NoneValue
    /\ refinement.at = "done"
    /\ refinement.need = NoneValue
    /\ Len(refinement.attempts) > 1
    /\ refinement.result.best_effort

(***************************************************************************)
(* The graph against its constructor arguments and against overlay.        *)
(***************************************************************************)
\* C25: the graph keeps the fill rule it was constructed with, and whatever
\* was extracted from it before, extract_shapes(R) returns what the first
\* extraction from a graph just constructed with the same arguments returns
\* under R.
C25_ExtractionIndependentOfHistory ==
    graph # NoneValue =>
        /\ graph.fill_rule = FillRuleFromPy(fill_rule)
        /\ call.fn = "extract_shapes" =>
               call.ret = PyFloatOverlayGraph_extract_shapes(
                              PyFloatOverlayGraph_new(subject, clip, fill_rule,
                                                      options, solver).val,
                              call.rule)

\* A second extraction from the graph has returned shapes.
C25_Witness ==
    /\ graph # NoneValue
    /\ builds = 2
    /\ call.fn = "extract_shapes"
    /\ call.ret # Ok(PyList(<< >>))

\* C26: what extract_shapes(R) returns from the graph is what
\* overlay(subject, clip, R, fill_rule, options, solver) returns for the
\* constructor's arguments, the empty list when no graph view is built
\* included.
C26_GraphAgreesWithOverlay ==
    (graph # NoneValue /\ call.fn = "extract_shapes") =>
        /\ call.ret = overlay(subject, clip, call.rule, fill_rule, options,
                              solver)
        /\ NoOverlayGraph => call.ret = Ok(PyList(<< >>))

\* An extraction under options the caller gave has returned shapes.
C26_Witness ==
    /\ graph # NoneValue
    /\ call.fn = "extract_shapes"
    /\ options # NoneValue
    /\ solver # NoneValue
    /\ call.ret.ok
    /\ call.ret.val # PyList(<< >>)

(***************************************************************************)
(* StrokeStyle.to_rust_style on the styles a caller can construct.         *)
(***************************************************************************)
StartCapPointInputs == {NoneValue, Some(<< <<-1, 0>>, <<0, 1>> >>)}

EndCapPointInputs == {NoneValue, Some(<< <<0, -1>>, <<1, 0>>, <<0, 1>> >>)}

AngleInputs == {NoneValue, Some(2), Some(3)}

StrokeStyleCases ==
    {PyStrokeStyle_new(2, sc, ec, j, ra, ja, sp, ep) :
        sc \in PyLineCaps, ec \in PyLineCaps, j \in PyLineJoins,
        ra \in AngleInputs, ja \in AngleInputs,
        sp \in StartCapPointInputs, ep \in EndCapPointInputs}

InitStyle ==
    /\ IdleSession
    /\ candidates = {}
    /\ IdleGraph
    /\ IdleTypes
    /\ IdleEngine
    /\ polylines = NoneValue
    /\ clip_rule = NoneValue
    /\ is_closed = FALSE
    /\ style \in StrokeStyleCases

\* style.to_rust_style(), as stroke calls it.
ToRustStyle ==
    /\ call = NoneValue
    /\ style # NoneValue
    /\ call' = [fn |-> "to_rust_style", rule |-> 0, input |-> style,
                ret |-> Ok(PyStrokeStyle_to_rust_style(style))]
    /\ UNCHANGED <<subject, clip, fill_rule, options, solver, candidates>>
    /\ UNCHANGED auxVars
    /\ UNCHANGED graphVars
    /\ UNCHANGED typeVars

NextStyle == ToRustStyle

SpecStyle == InitStyle /\ [][NextStyle]_vars

\* The cap a cap style stands for when no custom points are given.
ParametricCap(cap, round_cap_angle) ==
    IF cap = 0 THEN [t |-> "Butt"]
    ELSE IF cap = 2 THEN [t |-> "Square"]
    ELSE [t |-> "Round", angle |-> round_cap_angle]

\* The style s with field f set to v.
With(s, f, v) == [s EXCEPT ![f] = v]

\* C27: the start cap is Custom with the start_cap_points when they are
\* given, whatever start_cap is, and else Butt, Round(round_cap_angle) or
\* Square by start_cap; the end cap likewise from end_cap_points and
\* end_cap; neither end depends on the other end's fields; join_angle
\* changes nothing but the join, and round_cap_angle nothing but Round caps.
C27_CustomCapsOverrideTheirOwnEnd ==
    (call # NoneValue /\ call.fn = "to_rust_style") =>
        LET converted == call.ret.val
            Converted(s) == PyStrokeStyle_to_rust_style(s)
        IN  /\ converted.start_cap
                   = IF style.start_cap_points # NoneValue
                     THEN [t |-> "Custom", points |-> style.start_cap_points.v]
                     ELSE ParametricCap(style.start_cap, style.round_cap_angle)
            /\ converted.end_cap
                   = IF style.end_cap_points # NoneValue
                     THEN [t |-> "Custom", points |-> style.end_cap_points.v]
                     ELSE ParametricCap(style.end_cap, style.round_cap_angle)
            /\ \A ec \in PyLineCaps : \A ep \in EndCapPointInputs :
                   Converted(With(With(style, "end_cap", ec),
                                  "end_cap_points", ep)).start_cap
                       = converted.start_cap
            /\ \A sc \in PyLineCaps : \A sp \in StartCapPointInputs :
                   Converted(With(With(style, "start_cap", sc),
                                  "start_cap_points", sp)).end_cap
                       = converted.end_cap
            /\ \A a \in {2, 3} :
                   /\ Converted(With(style, "join_angle", a)).start_cap
                          = converted.start_cap
                   /\ Converted(With(style, "join_angle", a)).end_cap
                          = converted.end_cap
                   /\ Converted(With(style, "round_cap_angle", a)).join
                          = converted.join
                   /\ converted.start_cap.t # "Round" =>
                          Converted(With(style, "round_cap_angle", a)).start_cap
                              = converted.start_cap
                   /\ converted.end_cap.t # "Round" =>
                          Converted(With(style, "round_cap_angle", a)).end_cap
                              = converted.end_cap

\* A style with a Round start cap style and custom start points, and a
\* Round end cap without custom points, has been converted.
C27_Witness ==
    /\ call # NoneValue
    /\ call.fn = "to_rust_style"
    /\ style.start_cap = 1
    /\ style.start_cap_points # NoneValue
    /\ style.end_cap = 1
    /\ style.end_cap_points = NoneValue
    /\ call.ret.val.start_cap.t = "Custom"
    /\ call.ret.val.end_cap.t = "Round"

(***************************************************************************)
(* Entry points called with arguments that are not what they take: an      *)
(* argument that is no sequence, or one with a shape, a contour or a point *)
(* that cannot be converted after geometry that can.                       *)
(***************************************************************************)
PyStr == [t |-> "str"]

GoodPoint == PyTuple(<<PyFloat(0), PyFloat(0)>>)

\* A list [x, y], tuples of one and of three numbers, a tuple with a str,
\* and None where a point should be.
BadPoints ==
    {PyList(<<PyFloat(0), PyFloat(0)>>),
     PyTuple(<<PyFloat(0)>>),
     PyTuple(<<PyFloat(0), PyFloat(0), PyFloat(0)>>),
     PyTuple(<<PyFloat(0), PyStr>>),
     NoneValue}

GoodContour == PyShapes(Squares(0, FALSE, 1)).items[1].items[1]

BadContours ==
    {PyFloat(1)} \cup {PyList(<<GoodPoint, p>>) : p \in BadPoints}

BadShapeInputs ==
    {PyFloat(1), PyStr} \cup
    {PyList(<<PyList(<<GoodContour>>), x>>) :
        x \in {PyFloat(1)} \cup {PyList(<<GoodContour, c>>) : c \in BadContours}}

BadPathInputs ==
    {PyFloat(1), PyStr} \cup {PyList(<<GoodContour, c>>) : c \in BadContours}

GoodShapeInput == PyShapes(Squares(0, FALSE, 1))

GoodPathInput == PyPaths(<< << <<-1, 1>>, <<3, 1>> >> >>)

\* Arguments of overlay, simplify_shape and FloatOverlayGraph.
InitBadSession ==
    /\ IdleAux
    /\ IdleGraph
    /\ IdleTypes
    /\ candidates = {}
    /\ call = NoneValue
    /\ subject \in BadShapeInputs \cup {GoodShapeInput}
    /\ clip \in BadShapeInputs \cup {GoodShapeInput}
    /\ fill_rule = 0
    /\ options = NoneValue
    /\ solver = NoneValue

\* Arguments of clip_by, slice_by, stroke and outline.
InitBadMesh ==
    /\ IdleEngine
    /\ IdleGraph
    /\ IdleTypes
    /\ candidates = {}
    /\ call = NoneValue
    /\ clip = NoneValue
    /\ fill_rule = 0
    /\ options = NoneValue
    /\ solver = NoneValue
    /\ is_closed = FALSE
    /\ \/ /\ polylines \in BadPathInputs \cup {GoodPathInput}
          /\ subject \in {GoodShapeInput, PyFloat(1),
                          PyList(<<PyList(<<GoodContour, PyFloat(1)>>)>>)}
          /\ clip_rule \in {NoneValue, PyClipRule_new(FALSE, TRUE)}
          /\ style = NoneValue
       \/ /\ polylines \in BadPathInputs \cup {GoodPathInput}
          /\ subject = NoneValue
          /\ clip_rule = NoneValue
          /\ style = PyStrokeStyle_new(2, 0, 0, 0, NoneValue, NoneValue,
                                       NoneValue, NoneValue)
       \/ /\ polylines = NoneValue
          /\ subject \in BadShapeInputs \cup {GoodShapeInput}
          /\ clip_rule = NoneValue
          /\ style = PyOutlineStyle_new(1, NoneValue, NoneValue, 0, NoneValue)

InitBadInput == InitBadSession \/ InitBadMesh

NextBadInput ==
    \/ \E r \in {2, 3} : clip # NoneValue /\ CallOverlay(r)
    \/ clip # NoneValue /\ CallSimplify
    \/ clip # NoneValue /\ call = NoneValue /\ NewGraph
    \/ CallClipBy
    \/ clip_rule = NoneValue /\ CallSliceBy
    \/ CallStroke
    \/ CallOutline

SpecBadInput == InitBadInput /\ [][NextBadInput]_vars

\* What the entry points take: a sequence of shapes, each a sequence of
\* contours, each a sequence of points, each a tuple of two floats; paths
\* are a sequence of contours.
IsSequence(obj) == obj.t \in {"list", "tuple"}

IsPoint(obj) ==
    /\ obj.t = "tuple"
    /\ Len(obj.items) = 2
    /\ \A i \in 1..2 : obj.items[i].t = "float"

IsContour(obj) ==
    /\ IsSequence(obj)
    /\ \A i \in 1..Len(obj.items) : IsPoint(obj.items[i])

IsPaths(obj) ==
    /\ IsSequence(obj)
    /\ \A i \in 1..Len(obj.items) : IsContour(obj.items[i])

IsShapes(obj) ==
    /\ IsSequence(obj)
    /\ \A i \in 1..Len(obj.items) : IsPaths(obj.items[i])

\* The arguments the entry point fn converts, each with what its conversion
\* gives.
ConversionsOf(fn) ==
    LET shapes_arg == [fits |-> IsShapes(subject),
                       made |-> extract_shapes(subject)]
        clip_arg == [fits |-> IsShapes(clip), made |-> extract_shapes(clip)]
        paths_arg == [fits |-> IsPaths(polylines),
                      made |-> extract_paths(polylines)]
    IN  CASE fn \in {"overlay", "FloatOverlayGraph"} -> {shapes_arg, clip_arg}
          [] fn \in {"simplify_shape", "outline"} -> {shapes_arg}
          [] fn \in {"clip_by", "slice_by"} -> {paths_arg, shapes_arg}
          [] fn = "stroke" -> {paths_arg}

\* C28: the conversion of an argument that is not what the entry point
\* takes yields an error and no geometry, and the conversion of one that is
\* yields its geometry; an entry point one of whose arguments cannot be
\* converted returns the error, has invoked no engine function, and, for
\* FloatOverlayGraph, has created no graph.
C28_ConversionAllOrNothing ==
    call # NoneValue =>
        LET args == ConversionsOf(call.fn)
        IN  /\ \A a \in args :
                   IF a.fits THEN a.made.ok
                   ELSE a.made = Err("TypeError")
            /\ (\E a \in args : ~a.fits) =>
                   /\ call.ret = Err("TypeError")
                   /\ "engine" \in DOMAIN call => call.engine = << >>
                   /\ graph = NoneValue
            /\ (\A a \in args : a.fits) => call.ret.ok

\* overlay was called with a clip whose last point is no pair of floats.
C28_Witness ==
    /\ call # NoneValue
    /\ call.fn = "overlay"
    /\ extract_shapes(subject).ok
    /\ clip.t = "list"
    /\ ~extract_shapes(clip).ok
    /\ ~call.ret.ok

(***************************************************************************)
(* The counts and the exit code of the harness.                            *)
(***************************************************************************)
\* The combinations the loops have gone through so far.
CombinationsTested ==
    IF harness.at = "start" THEN 0
    ELSE (harness.i - 1) * Len(FILL_RULES) + (harness.j - 1)

\* C29: in the harness every combination tested so far is counted once,
\* as a success when its result is valid and as an error when the engine
\* panicked or the result failed validation, so that successes and errors
\* add up to the combinations tested, all of them after the loop; the exit
\* code is 0 exactly when a failure record was replayed with no error, and
\* 1 when there is no argument, the file cannot be read or parsed, or a
\* combination failed.
C29_CountsAndExitCode ==
    harness # NoneValue =>
        /\ harness.file.t = "failure" =>
               /\ harness.rust_successes + Len(harness.rust_errors)
                      = CombinationsTested
               /\ Len(harness.printed) = CombinationsTested
               /\ harness.rust_successes
                      = Cardinality({k \in 1..Len(harness.printed) :
                                        harness.printed[k].status = "OK"})
               /\ \A k \in 1..Len(harness.printed) :
                      harness.printed[k].status # "OK" =>
                          Cardinality({e \in 1..Len(harness.rust_errors) :
                                          harness.rust_errors[e][1]
                                              = harness.printed[k].name}) = 1
               /\ \A c \in HarnessCombinations : TimesReported(c) <= 1
               /\ harness.at = "exited" =>
                      CombinationsTested
                          = Len(OVERLAY_RULES) * Len(FILL_RULES)
        /\ harness.at = "exited" =>
               /\ harness.exit \in {Some(0), Some(1)}
               /\ harness.exit = Some(0) <=>
                      /\ harness.file.t = "failure"
                      /\ harness.rust_errors = << >>
        /\ harness.at # "exited" => harness.exit = NoneValue

\* The harness has finished a record one of whose results failed
\* validation, with every other combination a success.
C29_Witness ==
    /\ HarnessFinished
    /\ harness.file.panics = {}
    /\ Len(harness.rust_errors) = 1
    /\ harness.rust_errors[1][2] = "too few points"
    /\ harness.rust_successes = Len(OVERLAY_RULES) * Len(FILL_RULES) - 1
    /\ harness.exit = Some(1)

(***************************************************************************)
(* The enum conversions, both ways.  A binding variant is its              *)
(* discriminant, an engine variant its name.  `py` and `rust` hold the     *)
(* variant on either side and `back` what the way back gives; `leg` is 0   *)
(* on the variant the round trip starts from.                              *)
(***************************************************************************)
PyShapeTypes == 0..1
PyStrategies == 0..3

\* impl From<OverlayRule> for PyOverlayRule
OverlayRuleToPy(value) ==
    CASE value = "Subject" -> 0
      [] value = "Clip" -> 1
      [] value = "Intersect" -> 2
      [] value = "Union" -> 3
      [] value = "Difference" -> 4
      [] value = "InverseDifference" -> 5
      [] value = "Xor" -> 6

\* impl From<ContourDirection> for PyContourDirection
ContourDirectionToPy(value) ==
    CASE value = "CounterClockwise" -> 0
      [] value = "Clockwise" -> 1

\* impl From<PyShapeType> for ShapeType
ShapeTypeFromPy(value) ==
    CASE value = 0 -> "Subject"
      [] value = 1 -> "Clip"

\* impl From<ShapeType> for PyShapeType
ShapeTypeToPy(value) ==
    CASE value = "Subject" -> 0
      [] value = "Clip" -> 1

\* impl From<Strategy> for PyStrategy
StrategyToPy(value) ==
    CASE value = "List" -> 0
      [] value = "Tree" -> 1
      [] value = "Frag" -> 2
      [] value = "Auto" -> 3

EnumKinds ==
    {"FillRule", "OverlayRule", "ContourDirection", "ShapeType", "Strategy"}

\* The variants of the binding's enum, in the order of their discriminants.
PyVariantNames(kind) ==
    CASE kind = "FillRule" -> <<"EvenOdd", "NonZero", "Positive", "Negative">>
      [] kind = "OverlayRule" ->
             <<"Subject", "Clip", "Intersect", "Union", "Difference",
               "InverseDifference", "Xor">>
      [] kind = "ContourDirection" -> <<"CounterClockwise", "Clockwise">>
      [] kind = "ShapeType" -> <<"Subject", "Clip">>
      [] kind = "Strategy" -> <<"List", "Tree", "Frag", "Auto">>

PyVariants(kind) ==
    CASE kind = "FillRule" -> PyFillRules
      [] kind = "OverlayRule" -> PyOverlayRules
      [] kind = "ContourDirection" -> PyContourDirections
      [] kind = "ShapeType" -> PyShapeTypes
      [] kind = "Strategy" -> PyStrategies

\* The variants of the engine's enum: those the match arms name.
RustVariants(kind) ==
    CASE kind = "FillRule" -> {"EvenOdd", "NonZero", "Positive", "Negative"}
      [] kind = "OverlayRule" ->
             {"Subject", "Clip", "Intersect", "Union", "Difference",
              "InverseDifference", "Xor"}
      [] kind = "ContourDirection" -> {"CounterClockwise", "Clockwise"}
      [] kind = "ShapeType" -> {"Subject", "Clip"}
      [] kind = "Strategy" -> {"List", "Tree", "Frag", "Auto"}

\* value.into() from the binding's enum to the engine's.
EnumFromPy(kind, value) ==
    CASE kind = "FillRule" -> FillRuleFromPy(value)
      [] kind = "OverlayRule" -> OverlayRuleFromPy(value)
      [] kind = "ContourDirection" -> ContourDirectionFromPy(value)
      [] kind = "ShapeType" -> ShapeTypeFromPy(value)
      [] kind = "Strategy" -> StrategyFromPy(value)

\* value.into() from the engine's enum to the binding's.
EnumToPy(kind, value) ==
    CASE kind = "FillRule" -> FillRuleToPy(value)
      [] kind = "OverlayRule" -> OverlayRuleToPy(value)
      [] kind = "ContourDirection" -> ContourDirectionToPy(value)
      [] kind = "ShapeType" -> ShapeTypeToPy(value)
      [] kind = "Strategy" -> StrategyToPy(value)

Variant(kind, value, leg) == [kind |-> kind, val |-> value, leg |-> leg]

InitEnums ==
    /\ IdleAux
    /\ IdleSession
    /\ IdleGraph
    /\ candidates = {}
    /\ back = NoneValue
    /\ \E kind \in EnumKinds :
           \/ /\ \E d \in PyVariants(kind) : py = Variant(kind, d, 0)
              /\ rust = NoneValue
           \/ /\ \E v \in RustVariants(kind) : rust = Variant(kind, v, 0)
              /\ py = NoneValue

\* A binding variant goes to the engine.
PyIntoRust ==
    /\ py # NoneValue
    /\ py.leg = 0
    /\ rust = NoneValue
    /\ rust' = Variant(py.kind, EnumFromPy(py.kind, py.val), 1)
    /\ UNCHANGED <<py, back, candidates>>
    /\ UNCHANGED auxVars
    /\ UNCHANGED sessionVars
    /\ UNCHANGED graphVars

\* ... and comes back.
RustIntoPyBack ==
    /\ rust # NoneValue
    /\ rust.leg = 1
    /\ back = NoneValue
    /\ back' = Variant(rust.kind, EnumToPy(rust.kind, rust.val), 2)
    /\ UNCHANGED <<rust, py, candidates>>
    /\ UNCHANGED auxVars
    /\ UNCHANGED sessionVars
    /\ UNCHANGED graphVars

\* An engine variant goes to the binding.
RustIntoPy ==
    /\ rust # NoneValue
    /\ rust.leg = 0
    /\ py = NoneValue
    /\ py' = Variant(rust.kind, EnumToPy(rust.kind, rust.val), 1)
    /\ UNCHANGED <<rust, back, candidates>>
    /\ UNCHANGED auxVars
    /\ UNCHANGED sessionVars
    /\ UNCHANGED graphVars

\* ... and comes back.
PyIntoRustBack ==
    /\ py # NoneValue
    /\ py.leg = 1
    /\ back = NoneValue
    /\ back' = Variant(py.kind, EnumFromPy(py.kind, py.val), 2)
    /\ UNCHANGED <<rust, py, candidates>>
    /\ UNCHANGED auxVars
    /\ UNCHANGED sessionVars
    /\ UNCHANGED graphVars

NextEnums == PyIntoRust \/ RustIntoPyBack \/ RustIntoPy \/ PyIntoRustBack

SpecEnums == InitEnums /\ [][NextEnums]_vars

\* C30: a variant converted to the other side is the variant of the same
\* name there, and converted back it is the variant the round trip started
\* from, from either side; no two variants of one enum are converted to the
\* same variant, in either direction.
C30_EnumConversionsBijective ==
    /\ (py # NoneValue /\ rust # NoneValue) =>
           /\ py.kind = rust.kind
           /\ py.val \in PyVariants(py.kind)
           /\ rust.val \in RustVariants(rust.kind)
           /\ PyVariantNames(py.kind)[py.val + 1] = rust.val
    /\ back # NoneValue =>
           IF py.leg = 0 THEN back.val = py.val ELSE back.val = rust.val
    /\ \A kind \in EnumKinds :
           /\ \A a \in PyVariants(kind) : \A b \in PyVariants(kind) :
                  EnumFromPy(kind, a) = EnumFromPy(kind, b) => a = b
           /\ \A a \in RustVariants(kind) : \A b \in RustVariants(kind) :
                  EnumToPy(kind, a) = EnumToPy(kind, b) => a = b

\* OverlayRule::InverseDifference of the engine went to the binding and
\* came back.
C30_Witness ==
    /\ rust # NoneValue
    /\ rust.leg = 0
    /\ rust = Variant("OverlayRule", "InverseDifference", 0)
    /\ py # NoneValue
    /\ py.val = 5
    /\ back # NoneValue
    /\ back.val = "InverseDifference"

=============================================================================
